---- MODULE Spec2Model ----
(***************************************************************************)
(* Model of the stock-api repository: the CSV loaders and in-memory caches *)
(* of QualityStocksService and TrendlyneStocksService, the quality score   *)
(* and the tier gates, and the HTTP handlers in front of them.             *)
(*                                                                         *)
(* Numbers.  Python floats that come from the CSV are kept as integers in  *)
(* tenths (25.0 is 250, 1.5 is 15, 0.3 is 3); every threshold of the       *)
(* source is written in tenths too.  Values produced by _safe_int are      *)
(* whole integers.  Score points are kept in twentieths of a point, the    *)
(* smallest fraction calculate_quality_score can award (score/20).         *)
(*                                                                         *)
(* Text.  A Python str is a sequence of one-character strings, so that     *)
(* strip() and upper() are computed and not assumed.  A CSV cell that is   *)
(* read as a number is a token [k, v]: its lexical class k and, for the    *)
(* numeric classes, the number v (in tenths) the text denotes.             *)
(***************************************************************************)
EXTENDS Integers, Sequences, FiniteSets, TLC

VARIABLES
    files,        \* the data folder: the trendlyne-filtered (N).csv files, by N
    edits,        \* number of changes made to the data folder
    stocks,       \* QualityStocksService.stocks
    tiers,        \* the lists the last tier handler computed (history)
    t_service,    \* the TrendlyneStocksService singleton exists
    t_stocks,     \* TrendlyneStocksService._stocks, in insertion order
    t_loaded,     \* TrendlyneStocksService._loaded_files
    resp,         \* the last HTTP response
    probe,        \* the QualityStock given to the scoring functions
    result        \* what the scoring functions returned for probe

vars == <<files, edits, stocks, tiers, t_service, t_stocks, t_loaded, resp,
          probe, result>>

-----------------------------------------------------------------------------
(* Python values *)

\* Optional[float] / Optional[int]
None == [some |-> FALSE, v |-> 0]

Some(x) == [some |-> TRUE, v |-> x]

\* bool(x) of an Optional number: None and 0 are falsy
Truthy(o) == o.some /\ o.v # 0

Abs(x) == IF x < 0 THEN -x ELSE x

Min(a, b) == IF a < b THEN a ELSE b

Max(a, b) == IF a > b THEN a ELSE b

\* int(x): truncation toward zero of a float held in tenths
TruncInt(x) == IF x >= 0 THEN x \div 10 ELSE -((-x) \div 10)

\* str.upper() on the alphabet of the model
UpperChar(c) ==
    CASE c = "a" -> "A"
      [] c = "b" -> "B"
      [] c = "i" -> "I"
      [] c = "n" -> "N"
      [] c = "e" -> "E"
      [] OTHER -> c

Upper(s) == [i \in 1..Len(s) |-> UpperChar(s[i])]

\* str.lower() on the alphabet of the model
LowerChar(c) ==
    CASE c = "A" -> "a" [] c = "E" -> "e" [] c = "F" -> "f" [] c = "I" -> "i"
      [] c = "L" -> "l" [] c = "N" -> "n" [] c = "O" -> "o" [] c = "U" -> "u"
      [] OTHER -> c

Lower(s) == [i \in 1..Len(s) |-> LowerChar(s[i])]

RECURSIVE LStrip(_)
LStrip(s) == IF s # <<>> /\ Head(s) = " " THEN LStrip(Tail(s)) ELSE s

RECURSIVE RStrip(_)
RStrip(s) ==
    IF s # <<>> /\ s[Len(s)] = " " THEN RStrip(SubSeq(s, 1, Len(s) - 1)) ELSE s

\* str.strip()
Strip(s) == RStrip(LStrip(s))

\* str.startswith
StartsWith(s, p) == Len(s) >= Len(p) /\ SubSeq(s, 1, Len(p)) = p

-----------------------------------------------------------------------------
(* CSV cells.  csv.DictReader gives a str for every cell of a row, None    *)
(* for the cells a short row lacks, and nothing for a column the header    *)
(* does not have.                                                          *)

NoneCell == [k |-> "none", v |-> 0]     \* None: the row is shorter than the header

Empty == [k |-> "empty", v |-> 0]       \* ""

Dash == [k |-> "dash", v |-> 0]         \* "-"

Blank == [k |-> "blank", v |-> 0]       \* " "

NA == [k |-> "na", v |-> 0]             \* "N/A"

Text == [k |-> "text", v |-> 0]         \* "abc": not a number

Num(x) == [k |-> "num", v |-> x]        \* decimal text, e.g. "25" or "-1.5"

Comma(x) == [k |-> "comma", v |-> x]    \* decimal text with thousands separators

\* the text of an identity column: None in a short row, else a str
StrNone == [k |-> "none", s |-> <<>>]

Str(s) == [k |-> "str", s |-> s]

-----------------------------------------------------------------------------
(* A row as csv.DictReader yields it: id holds the text of the identity    *)
(* columns, cells the tokens of the other columns, and extra says that the *)
(* row has more fields than the header (DictReader files them under the    *)
(* key None).                                                              *)

IdColumns == {"Stock", "NSE Code", "BSE Code", "ISIN"}

\* row.get(col, default) for a column read as a number
RowGet(row, col, default) ==
    IF col \in DOMAIN row.cells THEN row.cells[col] ELSE default

\* row.get(col, default) for a column read as text
RowGetStr(row, col, default) ==
    IF col \in DOMAIN row.id THEN row.id[col] ELSE Str(default)

\* bool(value) of a cell: a non-empty str is truthy, None and "" are not
CellTruthy(cell) == cell.k \notin {"missing", "none", "empty"}

\* float(str(value).replace(',', '')) succeeds
ParsesAsFloat(cell) == cell.k \in {"num", "comma"}

-----------------------------------------------------------------------------
(* QualityStocksService: parsing *)

_safe_float(value, default) ==
    IF value.k \in {"none", "empty", "dash"} THEN default
    ELSE IF ParsesAsFloat(value) THEN value.v
    ELSE default

_safe_int(value, default) ==
    IF value.k \in {"none", "empty", "dash"} THEN default
    ELSE IF ParsesAsFloat(value) THEN TruncInt(value.v)
    ELSE default

\* self._safe_float(row.get(c, 0)) if row.get(c) else None
OptionalFloat(row, col) ==
    IF CellTruthy(RowGet(row, col, NoneCell))
    THEN Some(_safe_float(RowGet(row, col, Num(0)), 0))
    ELSE None

\* self._safe_int(row.get(c, 0)) if row.get(c) else None
OptionalInt(row, col) ==
    IF CellTruthy(RowGet(row, col, NoneCell))
    THEN Some(_safe_int(RowGet(row, col, Num(0)), 0))
    ELSE None

\* a or b or c on cells: the first truthy one, else the last
FirstTruthy(a, b, c) == IF CellTruthy(a) THEN a ELSE IF CellTruthy(b) THEN b ELSE c

\* the durability_score / valuation_score computation of load_stocks
ScoreColumn(row, c1, c2, c3) ==
    LET raw == FirstTruthy(RowGet(row, c1, NoneCell), RowGet(row, c2, NoneCell),
                           RowGet(row, c3, NoneCell))
    IN  IF raw.k \notin {"missing", "none", "empty", "blank", "dash", "na"}
        THEN Some(_safe_int(raw, 0))
        ELSE None

\* the row raises inside the per-row try of load_stocks: .strip() on None
RowRaises(row) ==
    \E c \in {"Stock", "NSE Code", "ISIN"} : RowGetStr(row, c, <<>>).k = "none"

\* QualityStock(...) as load_stocks builds it from a row, before the insights
NewQualityStock(row) ==
    [
      stock_name |-> Strip(RowGetStr(row, "Stock", <<>>).s),
      nse_code |-> Strip(RowGetStr(row, "NSE Code", <<>>).s),
      isin |-> Strip(RowGetStr(row, "ISIN", <<>>).s),
      market_cap |-> _safe_float(RowGet(row, "Market Cap", Num(0)), 0),
      roe |-> _safe_float(RowGet(row, "ROE Ann  %", Num(0)), 0),
      roce |-> _safe_float(RowGet(row, "ROCE Ann  %", Num(0)), 0),
      debt_to_equity |-> _safe_float(RowGet(row, "Total Debt to Total Equity Ann ", Num(0)), 0),
      interest_coverage |-> _safe_float(RowGet(row, "Interest Coverage Ratio Ann ", Num(0)), 0),
      current_ratio |-> _safe_float(RowGet(row, "Current Ratio Ann ", Num(0)), 0),
      promoter_holding |-> _safe_float(RowGet(row, "Promoter holding latest %", Num(0)), 0),
      promoter_holding_change_1y |-> _safe_float(RowGet(row, "Promoter holding change 1Y %", Num(0)), 0),
      eps_ttm_growth |-> _safe_float(RowGet(row, "EPS TTM Growth %", Num(0)), 0),
      operating_rev_growth_ttm |-> _safe_float(RowGet(row, "Operating Rev  growth TTM %", Num(0)), 0),
      net_profit_ann |-> _safe_float(RowGet(row, "Net Profit Ann ", Num(0)), 0),
      net_profit_ann_1y_ago |-> _safe_float(RowGet(row, "Net Profit Ann  1Y Ago", Num(0)), 0),
      opm_ann |-> _safe_float(RowGet(row, "OPM Ann  %", Num(0)), 0),
      opm_ann_1y_ago |-> _safe_float(RowGet(row, "OPM Ann  1Y ago %", Num(0)), 0),
      basic_eps_ttm |-> _safe_float(RowGet(row, "Basic EPS TTM", Num(0)), 0),
      basic_eps_ttm_1y_ago |-> _safe_float(RowGet(row, "Basic EPS TTM 1Y Ago", Num(0)), 0),
      pe_ttm |-> None,
      industry_pe_ttm |-> OptionalFloat(row, "Industry PE TTM"),
      peg_ttm |-> OptionalFloat(row, "PEG TTM"),
      price_to_book |-> OptionalFloat(row, "Industry PBV TTM"),
      ev_per_ebitda_ann |-> OptionalFloat(row, "EV Per EBITDA Ann "),
      durability_score |-> ScoreColumn(row, "Durability Score", "Durability", "DurabilityScore"),
      valuation_score |-> ScoreColumn(row, "Valuation Score", "Valuation", "ValuationScore"),
      piotroski_score |-> OptionalInt(row, "Piotroski Score"),
      altman_zscore |-> OptionalFloat(row, "Altman Zscore"),
      tobin_q_ratio |-> OptionalFloat(row, "Tobin Q Ratio"),
      graham_number |-> OptionalFloat(row, "Graham No "),
      eps_qtr_yoy_growth |-> _safe_float(RowGet(row, "EPS Qtr YoY Growth %", Num(0)), 0),
      basic_eps_qoq_growth |-> _safe_float(RowGet(row, "Basic EPS QoQ Growth %", Num(0)), 0),
      npm_ann |-> _safe_float(RowGet(row, "NPM Ann  %", Num(0)), 0),
      npm_ttm |-> _safe_float(RowGet(row, "NPM TTM %", Num(0)), 0),
      basic_eps_qtr |-> _safe_float(RowGet(row, "Basic EPS Qtr", Num(0)), 0),
      basic_eps_1q_ago |-> _safe_float(RowGet(row, "Basic EPS 1Q Ago", Num(0)), 0),
      basic_eps_2q_ago |-> _safe_float(RowGet(row, "Basic EPS 2Q Ago", Num(0)), 0),
      net_profit_qtr |-> _safe_float(RowGet(row, "Net Profit Qtr", Num(0)), 0),
      net_profit_1q_ago |-> _safe_float(RowGet(row, "Net Profit 1Q Ago", Num(0)), 0),
      net_profit_2q_ago |-> _safe_float(RowGet(row, "Net Profit 2Q Ago", Num(0)), 0),
      opm_qtr |-> _safe_float(RowGet(row, "Operating Profit Margin Qtr %", Num(0)), 0),
      opm_1q_ago |-> _safe_float(RowGet(row, "OPM 1Q ago %", Num(0)), 0),
      opm_qtr_4q_ago |-> _safe_float(RowGet(row, "OPM Qtr 4Qtr ago %", Num(0)), 0),
      promoter_holding_change_qoq |-> _safe_float(RowGet(row, "Promoter holding change QoQ %", Num(0)), 0),
      promoter_holding_change_2y |-> _safe_float(RowGet(row, "Promoter holding change 2Y %", Num(0)), 0),
      sector_pe_ttm |-> OptionalFloat(row, "Sector PE TTM"),
      sector_pbv_ttm |-> OptionalFloat(row, "Sector PBV TTM"),
      industry_pbv_ttm |-> OptionalFloat(row, "Industry PBV TTM"),
      roa_ann |-> _safe_float(RowGet(row, "RoA Ann  %", Num(0)), 0),
      roa_ann_1y_ago |-> _safe_float(RowGet(row, "RoA Ann  1Y Ago %", Num(0)), 0),
      roe_1y_ago |-> _safe_float(RowGet(row, "ROE Ann  1Y Ago %", Num(0)), 0),
      roe_2y_ago |-> _safe_float(RowGet(row, "ROE Ann  2Y Ago %", Num(0)), 0),
      roe_3y_ago |-> _safe_float(RowGet(row, "ROE Ann  3Y Ago %", Num(0)), 0),
      roce_3y_avg |-> _safe_float(RowGet(row, "ROCE Ann  3Y Avg %", Num(0)), 0),
      roce_5y_avg |-> _safe_float(RowGet(row, "ROCE Ann  5Y Avg %", Num(0)), 0),
      cash_flow_return_on_assets |-> _safe_float(RowGet(row, "Cash Flow Return on Assets Ann ", Num(0)), 0),
      cash_flow_return_on_assets_1y_ago |-> _safe_float(RowGet(row, "Cash Flow Return on Assets Ann  1Y ago", Num(0)), 0),
      cash_eps_ann |-> _safe_float(RowGet(row, "Cash EPS Ann ", Num(0)), 0),
      cash_eps_ann_1y_ago |-> _safe_float(RowGet(row, "Cash EPS Ann  1Y Ago", Num(0)), 0),
      cash_eps_1y_growth |-> _safe_float(RowGet(row, "Cash EPS 1Y Growth %", Num(0)), 0),
      working_capital_turnover |-> _safe_float(RowGet(row, "Working Capital Turnover Ann ", Num(0)), 0),
      book_value |-> _safe_float(RowGet(row, "Book Value Inc Reval Reserve Ann ", Num(0)), 0),
      price_to_sales_ann |-> OptionalFloat(row, "Price To Sales Ann "),
      price_to_sales_ttm |-> OptionalFloat(row, "Price to Sales TTM"),
      price_to_cashflow |-> OptionalFloat(row, "Price to Cashflow from Operations"),
      graham_ratio |-> OptionalFloat(row, "Graham Ratio"),
      operating_profit_ttm |-> _safe_float(RowGet(row, "Operating Profit TTM", Num(0)), 0),
      operating_profit_ttm_1y_ago |-> _safe_float(RowGet(row, "Operating Profit TTM 1Y Ago", Num(0)), 0),
      operating_profit_growth_qtr_yoy |-> _safe_float(RowGet(row, "Operating Profit Growth Qtr YoY %", Num(0)), 0),
      ebitda_ann |-> _safe_float(RowGet(row, "EBITDA Ann ", Num(0)), 0),
      ebitda_ttm |-> _safe_float(RowGet(row, "EBITDA TTM", Num(0)), 0),
      ebitda_ann_margin |-> _safe_float(RowGet(row, "EBITDA Ann  margin %", Num(0)), 0),
      ebit_ann_margin |-> _safe_float(RowGet(row, "EBIT Ann  Margin %", Num(0)), 0),
      ebitda_qtr_yoy_growth |-> _safe_float(RowGet(row, "EBITDA Qtr YoY Growth %", Num(0)), 0),
      promoter_pledge_percentage |-> _safe_float(RowGet(row, "Promoter holding pledge percentage % Qtr", Num(0)), 0),
      gross_npa_ratio |-> OptionalFloat(row, "Gross NPA ratio Qtr %"),
      capital_adequacy_ratio |-> OptionalFloat(row, "Capital Adequacy Ratios Ann  %"),
      industry_score |-> OptionalInt(row, "Industry Score"),
      sector_score |-> OptionalInt(row, "Sector Score"),
      tl_checklist_positive_score |-> OptionalInt(row, "TL Checklist Positive Score"),
      tl_checklist_negative_score |-> OptionalInt(row, "TL Checklist Negative Score"),
      swot_strengths |-> OptionalInt(row, "SWOT Strengths"),
      swot_weakness |-> OptionalInt(row, "SWOT Weakness"),
      swot_opportunities |-> OptionalInt(row, "SWOT Opportunities"),
      swot_threats |-> OptionalInt(row, "SWOT Threats"),
      sector_roce |-> OptionalFloat(row, "Sector ROCE"),
      industry_roce |-> OptionalFloat(row, "Industry ROCE"),
      sector_roe |-> OptionalFloat(row, "Sector ROE"),
      industry_roe |-> OptionalFloat(row, "Industry ROE"),
      sector_peg_ttm |-> OptionalFloat(row, "Sector PEG TTM"),
      industry_peg_ttm |-> OptionalFloat(row, "Industry PEG TTM"),
      sector_net_profit_growth_qtr_qoq |-> OptionalFloat(row, "Sector Net Profit Growth Qtr QoQ %"),
      sector_net_profit_growth_ann_yoy |-> OptionalFloat(row, "Sector Net Profit Growth Ann  YoY %"),
      industry_net_profit_growth_qtr_qoq |-> OptionalFloat(row, "Industry Net Profit Growth Qtr QoQ %"),
      industry_net_profit_growth_ann_yoy |-> OptionalFloat(row, "Industry Net Profit Growth Ann  YoY %"),
      price_to_book_adjusted |-> OptionalFloat(row, "PBV Adjusted"),
      fc_est_1q_forward_ebit_qtr |-> OptionalFloat(row, "FC Est  1Q forward EBIT Qtr"),
      quality_score |-> 0,
      quality_tier |-> "",
      consecutive_positive_quarters |-> 0,
      profit_growth_consistency |-> "",
      margin_stability |-> "",
      promoter_trend |-> "",
      cash_flow_quality |-> "",
      roe_trend |-> "",
      roce_consistency |-> ""
    ]

-----------------------------------------------------------------------------
(* QualityStocksService: the calculated insights *)

\* a count of the passing pairs that does not stop at the first failing one
CountsEveryPair(stock) ==
    LET Pass(current, previous) == current > 0 /\ (previous <= 0 \/ current > previous)
    IN  (IF Pass(stock.basic_eps_qtr, stock.basic_eps_1q_ago) THEN 1 ELSE 0)
      + (IF Pass(stock.basic_eps_1q_ago, stock.basic_eps_2q_ago) THEN 1 ELSE 0)

_count_consecutive_positive_quarters(stock) ==
    LET Pass(current, previous) ==
            \/ (current > 0 /\ previous > 0 /\ current > previous)
            \/ (current > 0 /\ previous <= 0)
    IN  IF ~Pass(stock.basic_eps_qtr, stock.basic_eps_1q_ago) THEN 0
        ELSE IF ~Pass(stock.basic_eps_1q_ago, stock.basic_eps_2q_ago) THEN 1
        ELSE 2

\* a comparison that also accepts a growth equal to the threshold
GrowthAtLeast(a, b, pct) == (a - b) * 100 >= pct * Abs(b)

\* profit_growth_yoy > pct, with profit_growth_yoy = (a - b) / abs(b) * 100, b > 0
GrowthAbove(a, b, pct) == (a - b) * 100 > pct * Abs(b)

_assess_profit_growth_consistency(stock) ==
    IF stock.net_profit_ann <= 0 \/ stock.net_profit_ann_1y_ago <= 0 THEN "Negative"
    ELSE
      LET quarters_positive ==
              (IF stock.net_profit_qtr > 0 THEN 1 ELSE 0)
            + (IF stock.net_profit_1q_ago > 0 THEN 1 ELSE 0)
            + (IF stock.net_profit_2q_ago > 0 THEN 1 ELSE 0)
          Yoy(pct) == GrowthAbove(stock.net_profit_ann, stock.net_profit_ann_1y_ago, pct)
      IN  IF Yoy(15) /\ quarters_positive >= 2 THEN "Very Consistent"
          ELSE IF Yoy(10) /\ quarters_positive >= 2 THEN "Consistent"
          ELSE IF Yoy(0) THEN "Moderate"
          ELSE "Inconsistent"

_assess_margin_stability(stock) ==
    IF stock.opm_ann <= 0 THEN "Negative"
    ELSE IF stock.opm_ann > stock.opm_ann_1y_ago
    THEN (IF stock.opm_qtr > stock.opm_1q_ago THEN "Expanding" ELSE "Expanding (Volatile)")
    ELSE
      \* margin_change = abs(opm - opm_1y) / max(opm_1y, 1); 1 is 10 tenths
      LET num == Abs(stock.opm_ann - stock.opm_ann_1y_ago)
          den == Max(stock.opm_ann_1y_ago, 10)
      IN  IF 100 * num < 5 * den THEN "Stable"
          ELSE IF 100 * num < 15 * den THEN "Moderately Stable"
          ELSE "Volatile"

_assess_promoter_trend(stock) ==
    IF stock.promoter_holding_change_1y > 10
    THEN (IF stock.promoter_holding_change_qoq > 0 THEN "Rising (Strong)" ELSE "Rising")
    ELSE IF stock.promoter_holding_change_1y > 0 THEN "Rising (Moderate)"
    ELSE IF Abs(stock.promoter_holding_change_1y) < 10 THEN "Stable"
    ELSE "Declining"

_assess_cash_flow_quality(stock) ==
    LET now == stock.cash_flow_return_on_assets
        ago == stock.cash_flow_return_on_assets_1y_ago
    IN  IF now > 0 /\ ago > 0
        THEN (IF now > ago THEN "Improving"
              ELSE IF Abs(now - ago) < 20 THEN "Stable"
              ELSE "Declining")
        ELSE IF now > 0 THEN "Positive"
        ELSE "Negative"

_assess_roe_trend(stock) ==
    IF /\ stock.roe > stock.roe_1y_ago
       /\ stock.roe_1y_ago > stock.roe_2y_ago
       /\ stock.roe_2y_ago > stock.roe_3y_ago
    THEN "Consistently Rising"
    ELSE IF stock.roe > stock.roe_1y_ago THEN "Rising"
    ELSE IF Abs(stock.roe - stock.roe_1y_ago) < 20 THEN "Stable"
    ELSE "Declining"

_assess_roce_consistency(stock) ==
    IF stock.roce_3y_avg > 0 /\ stock.roce_5y_avg > 0
    THEN LET diff_3y == Abs(stock.roce - stock.roce_3y_avg)
             diff_5y == Abs(stock.roce - stock.roce_5y_avg)
         IN  IF diff_3y < 30 /\ diff_5y < 50 THEN "Very Consistent"
             ELSE IF diff_3y < 50 THEN "Consistent"
             ELSE IF stock.roce > stock.roce_3y_avg THEN "Improving"
             ELSE "Volatile"
    ELSE "Insufficient Data"

\* the assignments of load_stocks that follow QualityStock(...)
WithInsights(stock) ==
    [stock EXCEPT
        !.cash_flow_quality = _assess_cash_flow_quality(stock),
        !.roe_trend = _assess_roe_trend(stock),
        !.roce_consistency = _assess_roce_consistency(stock),
        !.consecutive_positive_quarters = _count_consecutive_positive_quarters(stock),
        !.profit_growth_consistency = _assess_profit_growth_consistency(stock),
        !.margin_stability = _assess_margin_stability(stock),
        !.promoter_trend = _assess_promoter_trend(stock)]

\* the stock load_stocks makes of a row that does not raise
ParseRow(row) == WithInsights(NewQualityStock(row))

-----------------------------------------------------------------------------
(* QualityStocksService.calculate_quality_score.  EarnedPoints is the      *)
(* variable score at line 834, in twentieths of a point.                   *)

\* the first rung of a ladder of (condition, points) that holds, else 0
RECURSIVE Ladder(_)
Ladder(rungs) ==
    IF rungs = <<>> THEN 0
    ELSE IF Head(rungs)[1] THEN Head(rungs)[2]
    ELSE Ladder(Tail(rungs))

EarnedPoints(stock) ==
    LET s == stock
        \* 1. ROE
        p1 == Ladder(<< <<s.roe > 200, 20>>, <<s.roe > 150, 15>>, <<s.roe > 120, 10>>,
                        <<s.roe > 80, 5>> >>)
        \* 2. ROCE
        p2 == Ladder(<< <<s.roce > 250, 20>>, <<s.roce > 200, 15>>, <<s.roce > 150, 10>>,
                        <<s.roce > 100, 5>> >>)
        \* 3. Debt/Equity
        p3 == Ladder(<< <<s.debt_to_equity = 0, 15>>, <<s.debt_to_equity < 3, 12>>,
                        <<s.debt_to_equity < 5, 10>>, <<s.debt_to_equity < 10, 7>>,
                        <<s.debt_to_equity < 15, 3>> >>)
        \* 4. Interest Coverage
        p4 == Ladder(<< <<s.interest_coverage > 100, 10>>, <<s.interest_coverage > 50, 8>>,
                        <<s.interest_coverage > 30, 5>>, <<s.interest_coverage > 15, 2>> >>)
        \* 5. Current Ratio
        p5 == Ladder(<< <<s.current_ratio > 20, 10>>, <<s.current_ratio > 15, 8>>,
                        <<s.current_ratio > 12, 5>>, <<s.current_ratio > 10, 2>> >>)
        \* 6. Promoter Holding, with the bonus for a rising holding
        p6 == Ladder(<< <<s.promoter_holding > 500, 5>>, <<s.promoter_holding > 300, 3>>,
                        <<s.promoter_holding > 200, 1>> >>)
              + (IF s.promoter_holding_change_1y > 0 THEN 2 ELSE 0)
        \* 7. EPS Growth
        p7 == Ladder(<< <<s.eps_ttm_growth > 200, 10>>, <<s.eps_ttm_growth > 100, 7>>,
                        <<s.eps_ttm_growth > 50, 4>>, <<s.eps_ttm_growth > 0, 2>> >>)
        \* 8. Revenue Growth
        p8 == Ladder(<< <<s.operating_rev_growth_ttm > 200, 10>>,
                        <<s.operating_rev_growth_ttm > 150, 8>>,
                        <<s.operating_rev_growth_ttm > 100, 5>>,
                        <<s.operating_rev_growth_ttm > 50, 2>> >>)
        \* 9. Profit Growth Consistency
        p9 == IF s.net_profit_ann > 0 /\ s.net_profit_ann_1y_ago > 0
              THEN Ladder(<<
                     <<GrowthAbove(s.net_profit_ann, s.net_profit_ann_1y_ago, 20), 8>>,
                     <<GrowthAbove(s.net_profit_ann, s.net_profit_ann_1y_ago, 10), 5>>,
                     <<GrowthAbove(s.net_profit_ann, s.net_profit_ann_1y_ago, 0), 2>> >>)
              ELSE 0
        \* 10. Operating Margin Trend
        p10 == Ladder(<< <<s.opm_ann > s.opm_ann_1y_ago /\ s.opm_ann > 150, 5>>,
                         <<s.opm_ann > s.opm_ann_1y_ago, 3>>,
                         <<s.opm_ann > 100, 1>> >>)
        \* 11. PEG Ratio
        p11 == IF Truthy(s.peg_ttm) /\ s.peg_ttm.v > 0
               THEN Ladder(<< <<7 <= s.peg_ttm.v /\ s.peg_ttm.v <= 15, 5>>,
                              <<5 <= s.peg_ttm.v /\ s.peg_ttm.v <= 20, 3>>,
                              <<s.peg_ttm.v < 5, 1>> >>)
               ELSE 0
        \* 12. Quarterly EPS Growth
        p12 == Ladder(<< <<s.consecutive_positive_quarters >= 2, 8>>,
                         <<s.consecutive_positive_quarters = 1, 4>>,
                         <<s.basic_eps_qoq_growth > 0, 2>> >>)
        \* 13. PE vs Industry PE; pe_ratio = pe_ttm / industry_pe_ttm
        p13 == IF Truthy(s.pe_ttm) /\ Truthy(s.industry_pe_ttm) /\ s.industry_pe_ttm.v > 0
               THEN Ladder(<< <<10 * s.pe_ttm.v < 9 * s.industry_pe_ttm.v, 5>>,
                              <<10 * s.pe_ttm.v <= 11 * s.industry_pe_ttm.v, 3>>,
                              <<10 * s.pe_ttm.v <= 13 * s.industry_pe_ttm.v, 1>> >>)
               ELSE IF Truthy(s.sector_pe_ttm) /\ s.sector_pe_ttm.v > 0
               THEN (IF Truthy(s.pe_ttm)
                     THEN Ladder(<< <<10 * s.pe_ttm.v < 9 * s.sector_pe_ttm.v, 4>>,
                                    <<10 * s.pe_ttm.v <= 11 * s.sector_pe_ttm.v, 2>> >>)
                     ELSE 0)
               ELSE 0
        \* 14. Price to Book
        p14 == IF Truthy(s.price_to_book)
               THEN Ladder(<< <<s.price_to_book.v < 10, 5>>, <<s.price_to_book.v < 20, 3>>,
                              <<s.price_to_book.v < 30, 1>> >>)
               ELSE IF Truthy(s.industry_pbv_ttm)
               THEN (IF s.industry_pbv_ttm.v < 20 THEN 2 ELSE 0)
               ELSE 0
        \* 15. EV/EBITDA
        p15 == IF Truthy(s.ev_per_ebitda_ann)
               THEN Ladder(<< <<s.ev_per_ebitda_ann.v < 80, 5>>,
                              <<s.ev_per_ebitda_ann.v < 120, 3>>,
                              <<s.ev_per_ebitda_ann.v < 150, 1>> >>)
               ELSE 0
        \* 16. Promoter Trend Bonus
        p16 == Ladder(<< <<s.promoter_trend \in {"Rising (Strong)", "Rising"}, 3>>,
                         <<s.promoter_trend = "Rising (Moderate)", 2>>,
                         <<s.promoter_trend = "Stable", 1>> >>)
        \* 17. Margin Stability Bonus
        p17 == Ladder(<< <<s.margin_stability = "Expanding", 3>>,
                         <<s.margin_stability = "Stable", 2>>,
                         <<s.margin_stability = "Moderately Stable", 1>> >>)
        \* 18. Profit Growth Consistency Bonus
        p18 == Ladder(<< <<s.profit_growth_consistency = "Very Consistent", 4>>,
                         <<s.profit_growth_consistency = "Consistent", 3>>,
                         <<s.profit_growth_consistency = "Moderate", 1>> >>)
        \* 19. Trendlyne Scores: min(score / 2, 7) each, in twentieths
        tl19 == (IF Truthy(s.durability_score)
                 THEN Min(10 * s.durability_score.v, 140) ELSE 0)
              + (IF Truthy(s.valuation_score)
                 THEN Min(10 * s.valuation_score.v, 140) ELSE 0)
        \* 20. Piotroski Score
        p20 == IF s.piotroski_score.some THEN Min(s.piotroski_score.v, 9) ELSE 0
        \* 21. Altman Z-Score
        p21 == IF Truthy(s.altman_zscore)
               THEN Ladder(<< <<s.altman_zscore.v > 30, 6>>, <<s.altman_zscore.v > 27, 4>>,
                              <<s.altman_zscore.v > 18, 2>> >>)
               ELSE 0
        \* 22. Tobin Q Ratio
        p22 == IF Truthy(s.tobin_q_ratio)
               THEN Ladder(<< <<8 <= s.tobin_q_ratio.v /\ s.tobin_q_ratio.v <= 12, 5>>,
                              <<6 <= s.tobin_q_ratio.v /\ s.tobin_q_ratio.v < 8, 4>>,
                              <<12 < s.tobin_q_ratio.v /\ s.tobin_q_ratio.v <= 15, 2>>,
                              <<s.tobin_q_ratio.v > 15, 1>> >>)
               ELSE 0
        \* 23. Graham Number; graham_number > market_cap * 0.5
        p23 == IF Truthy(s.graham_number) /\ s.market_cap > 0 /\ s.graham_number.v > 0
               THEN 2 + (IF 2 * s.graham_number.v > s.market_cap THEN 2 ELSE 0)
               ELSE 0
        \* 24. ROA, with the bonus for an improving ROA
        p24 == Ladder(<< <<s.roa_ann > 100, 5>>, <<s.roa_ann > 70, 4>>,
                         <<s.roa_ann > 50, 3>>, <<s.roa_ann > 30, 1>> >>)
               + (IF s.roa_ann > s.roa_ann_1y_ago /\ s.roa_ann > 50 THEN 1 ELSE 0)
        \* 25. Cash Flow Quality, with the bonus for an improving cash flow
        p25 == Ladder(<< <<s.cash_flow_return_on_assets > 100, 5>>,
                         <<s.cash_flow_return_on_assets > 70, 4>>,
                         <<s.cash_flow_return_on_assets > 50, 3>>,
                         <<s.cash_flow_return_on_assets > 0, 1>> >>)
               + (IF s.cash_flow_quality = "Improving" THEN 1 ELSE 0)
        \* 26. Cash EPS Growth
        p26 == Ladder(<< <<s.cash_eps_1y_growth > 200, 4>>, <<s.cash_eps_1y_growth > 100, 3>>,
                         <<s.cash_eps_1y_growth > 50, 2>>, <<s.cash_eps_1y_growth > 0, 1>> >>)
        \* 27. Working Capital Efficiency
        p27 == Ladder(<< <<s.working_capital_turnover > 100, 3>>,
                         <<s.working_capital_turnover > 50, 2>>,
                         <<s.working_capital_turnover > 20, 1>> >>)
        \* 28. Operating Profit TTM Growth
        p28 == IF s.operating_profit_ttm > 0 /\ s.operating_profit_ttm_1y_ago > 0
               THEN Ladder(<<
                 <<GrowthAbove(s.operating_profit_ttm, s.operating_profit_ttm_1y_ago, 20), 4>>,
                 <<GrowthAbove(s.operating_profit_ttm, s.operating_profit_ttm_1y_ago, 10), 3>>,
                 <<GrowthAbove(s.operating_profit_ttm, s.operating_profit_ttm_1y_ago, 5), 2>>,
                 <<GrowthAbove(s.operating_profit_ttm, s.operating_profit_ttm_1y_ago, 0), 1>> >>)
               ELSE 0
        \* 29. EBITDA Quality, with the bonus for EBITDA growth
        p29 == Ladder(<< <<s.ebitda_ann_margin > 250, 4>>, <<s.ebitda_ann_margin > 200, 3>>,
                         <<s.ebitda_ann_margin > 150, 2>>, <<s.ebitda_ann_margin > 100, 1>> >>)
               + (IF s.ebitda_qtr_yoy_growth > 150 THEN 1 ELSE 0)
        \* 30. Price to Sales
        p30 == IF Truthy(s.price_to_sales_ttm)
               THEN Ladder(<< <<s.price_to_sales_ttm.v < 10, 3>>,
                              <<s.price_to_sales_ttm.v < 20, 2>>,
                              <<s.price_to_sales_ttm.v < 30, 1>> >>)
               ELSE IF Truthy(s.price_to_sales_ann)
               THEN Ladder(<< <<s.price_to_sales_ann.v < 10, 3>>,
                              <<s.price_to_sales_ann.v < 20, 2>> >>)
               ELSE 0
        \* 31. Price to Cashflow
        p31 == IF Truthy(s.price_to_cashflow)
               THEN Ladder(<< <<s.price_to_cashflow.v < 100, 3>>,
                              <<s.price_to_cashflow.v < 150, 2>>,
                              <<s.price_to_cashflow.v < 200, 1>> >>)
               ELSE 0
        \* 32. ROCE Consistency
        p32 == Ladder(<< <<s.roce_consistency = "Very Consistent", 3>>,
                         <<s.roce_consistency = "Consistent", 2>>,
                         <<s.roce_consistency = "Improving", 1>> >>)
        \* 33. ROE Trend
        p33 == Ladder(<< <<s.roe_trend = "Consistently Rising", 2>>,
                         <<s.roe_trend = "Rising", 1>> >>)
        \* 34. Promoter Pledge
        p34 == Ladder(<< <<s.promoter_pledge_percentage = 0, 2>>,
                         <<s.promoter_pledge_percentage < 100, 1>> >>)
        \* 35. Industry/Sector score: min(score / 20, 1.5) each, in twentieths
        tl35 == (IF Truthy(s.industry_score) THEN Min(s.industry_score.v, 30) ELSE 0)
              + (IF Truthy(s.sector_score) THEN Min(s.sector_score.v, 30) ELSE 0)
        \* 36. TL Checklist
        p36 == IF Truthy(s.tl_checklist_positive_score)
                  /\ Truthy(s.tl_checklist_negative_score)
               THEN LET net_score == s.tl_checklist_positive_score.v
                                     - s.tl_checklist_negative_score.v
                    IN  Ladder(<< <<net_score > 10, 2>>, <<net_score > 5, 1>> >>)
               ELSE 0
        \* 37. Bank-specific metrics
        p37 == (IF s.gross_npa_ratio.some
                THEN Ladder(<< <<s.gross_npa_ratio.v < 10, 2>>,
                               <<s.gross_npa_ratio.v < 20, 1>> >>)
                ELSE 0)
             + (IF Truthy(s.capital_adequacy_ratio) /\ s.capital_adequacy_ratio.v > 150
                THEN 1 ELSE 0)
    IN  20 * (p1 + p2 + p3 + p4 + p5 + p6 + p7 + p8 + p9 + p10 + p11 + p12 + p13
              + p14 + p15 + p16 + p17 + p18 + p20 + p21 + p22 + p23 + p24 + p25
              + p26 + p27 + p28 + p29 + p30 + p31 + p32 + p33 + p34 + p36 + p37)
        + tl19 + tl35

\* the variable max_score at line 834, in points: the sum of its 37 increments
MaxScore ==
    20 + 20 + 15 + 10 + 10 + 7 + 10 + 10 + 8 + 5 + 5 + 8 + 5 + 5 + 5 + 3 + 3 + 4
    + 14 + 9 + 6 + 5 + 4 + 6 + 6 + 4 + 3 + 4 + 5 + 3 + 3 + 3 + 2 + 2 + 3 + 2 + 3

\* round(n / d, 0) of an exact fraction, ties to even, d > 0
RoundDiv(n, d) ==
    LET q == n \div d
        r == n % d
    IN  IF 2 * r < d THEN q
        ELSE IF 2 * r > d THEN q + 1
        ELSE IF q % 2 = 0 THEN q ELSE q + 1

\* round((score / max_score) * 100, 2), in hundredths
calculate_quality_score(stock) ==
    IF MaxScore > 0
    THEN RoundDiv(EarnedPoints(stock) * 100 * 100, 20 * MaxScore)
    ELSE 0

-----------------------------------------------------------------------------
(* QualityStocksService: the tier gates.  Each gate is the conjunction of  *)
(* its checks; a check is named after the metric it thresholds.            *)

\* a Great gate that asks a revenue growth above 20
GreatAsksRevenueAboveTwenty(stock) ==
    [operating_rev_growth_ttm |-> stock.operating_rev_growth_ttm > 200]

\* the conjuncts of meets_criteria in filter_great_quality_stocks
GreatChecks(stock) ==
    [ roe |-> stock.roe > 120,
      roce |-> stock.roce > 150,
      debt_to_equity |-> stock.debt_to_equity < 10,
      interest_coverage |-> stock.interest_coverage > 30,
      current_ratio |-> stock.current_ratio > 12,
      eps_ttm_growth |-> stock.eps_ttm_growth > 0,
      operating_rev_growth_ttm |-> stock.operating_rev_growth_ttm > 100,
      consecutive_positive_quarters |-> stock.consecutive_positive_quarters >= 1,
      profit_growth_consistency |->
          stock.profit_growth_consistency \in {"Consistent", "Very Consistent", "Moderate"},
      margin_stability |->
          stock.margin_stability \in {"Stable", "Expanding", "Moderately Stable"},
      quality_score |-> stock.quality_score >= 7000,
      market_cap |-> stock.market_cap > 0,
      roa_ann |-> stock.roa_ann > 50,
      cash_flow_return_on_assets |-> stock.cash_flow_return_on_assets > 0,
      cash_flow_quality |-> stock.cash_flow_quality # "Negative",
      promoter_pledge_percentage |-> stock.promoter_pledge_percentage < 300,
      altman_zscore |-> (~stock.altman_zscore.some) \/ stock.altman_zscore.v > 18 ]

\* an Aggressive gate that asks a higher return on equity than the Great gate
AggressiveRoeAboveGreat(stock) == [GreatChecks(stock) EXCEPT !.roe = stock.roe > 121]

\* the conjuncts of the condition in filter_aggressive_quality_stocks
AggressiveChecks(stock) ==
    [ roe |-> stock.roe > 100,
      roce |-> stock.roce > 120,
      debt_to_equity |-> stock.debt_to_equity < 15,
      interest_coverage |-> stock.interest_coverage > 20,
      growth |-> stock.eps_ttm_growth > 150 \/ stock.operating_rev_growth_ttm > 200,
      quality_score |-> stock.quality_score >= 6000,
      market_cap |-> stock.market_cap > 0,
      profit_growth_consistency |-> stock.profit_growth_consistency # "Inconsistent",
      margin_stability |-> stock.margin_stability # "Volatile",
      roa_ann |-> stock.roa_ann > 30,
      cash_flow_quality |-> stock.cash_flow_quality # "Negative",
      promoter_pledge_percentage |-> stock.promoter_pledge_percentage < 400,
      altman_zscore |-> (~stock.altman_zscore.some) \/ stock.altman_zscore.v > 15 ]

\* the conjuncts of the condition in filter_medium_quality_stocks
GoodChecks(stock) ==
    [ roe |-> stock.roe > 80,
      roce |-> stock.roce > 100,
      debt_to_equity |-> stock.debt_to_equity < 20,
      interest_coverage |-> stock.interest_coverage > 15,
      quality_score |-> stock.quality_score >= 5500,
      quality_score_max |-> stock.quality_score < 7000,
      market_cap |-> stock.market_cap > 0,
      profit_growth_consistency |-> stock.profit_growth_consistency # "Inconsistent",
      margin_stability |-> stock.margin_stability # "Volatile",
      cash_flow_quality |-> stock.cash_flow_quality # "Negative",
      growth |-> stock.eps_ttm_growth > -50 \/ stock.operating_rev_growth_ttm > 50,
      promoter_pledge_percentage |-> stock.promoter_pledge_percentage < 500 ]

AllHold(checks) == \A c \in DOMAIN checks : checks[c]

GreatGate(stock) == AllHold(GreatChecks(stock))

AggressiveGate(stock) == AllHold(AggressiveChecks(stock))

GoodGate(stock) == AllHold(GoodChecks(stock))

-----------------------------------------------------------------------------
(* Lists of stocks.  A Python list of QualityStock objects is a sequence   *)
(* of indices into self.stocks: the tier lists share their objects with    *)
(* self.stocks, so relabelling a stock shows in every list that holds it.  *)

\* insert index i into the list sorted by key descending, after its equals
RECURSIVE InsertDesc(_, _, _)
InsertDesc(sorted, i, key) ==
    IF sorted = <<>> THEN <<i>>
    ELSE IF key[i] > key[Head(sorted)] THEN <<i>> \o sorted
    ELSE <<Head(sorted)>> \o InsertDesc(Tail(sorted), i, key)

\* list.sort(key=..., reverse=True): stable, descending
RECURSIVE SortDesc(_, _)
SortDesc(list, key) ==
    IF list = <<>> THEN <<>>
    ELSE InsertDesc(SortDesc(SubSeq(list, 1, Len(list) - 1), key), list[Len(list)], key)

\* the indices 1..n that satisfy hit, in order
RECURSIVE Select(_, _)
Select(n, hit) ==
    IF n = 0 THEN <<>>
    ELSE Select(n - 1, hit) \o (IF n \in hit THEN <<n>> ELSE <<>>)

\* stock.quality_score = self.calculate_quality_score(stock)
Scored(stock) == [stock EXCEPT !.quality_score = calculate_quality_score(stock)]

\* for stock in self.stocks: stock.quality_score = self.calculate_quality_score(stock)
RECURSIVE Rescore(_)
Rescore(ss) ==
    IF ss = <<>> THEN <<>> ELSE <<Scored(Head(ss))>> \o Rescore(Tail(ss))

\* the stocks in hit get the tier label
Label(ss, hit, tier) ==
    [i \in DOMAIN ss |-> IF i \in hit THEN [ss[i] EXCEPT !.quality_tier = tier] ELSE ss[i]]

\* a filter's outcome: self.stocks after it, and the list it returns, which
\* holds the stocks in hit sorted by key, descending
Filtered(ss, hit, tier, key) ==
    [stocks |-> Label(ss, hit, tier),
     list |-> SortDesc(Select(Len(ss), hit), key)]

ByQualityScore(ss) == [i \in DOMAIN ss |-> ss[i].quality_score]

\* (eps_ttm_growth + operating_rev_growth_ttm) / 2 orders as the sum does
ByGrowth(ss) == [i \in DOMAIN ss |-> ss[i].eps_ttm_growth + ss[i].operating_rev_growth_ttm]

\* the loop of filter_great_quality_stocks over the scored stocks, and its sort
GreatOf(ss) ==
    Filtered(ss, {i \in DOMAIN ss : GreatGate(ss[i])}, "Great", ByQualityScore(ss))

\* filter_great_quality_stocks on loaded stocks
filter_great_quality_stocks(ss) == GreatOf(Rescore(ss))

\* the loop of filter_aggressive_quality_stocks over the scored stocks, and its sort
AggressiveOf(ss) ==
    Filtered(ss, {i \in DOMAIN ss : AggressiveGate(ss[i])}, "Aggressive", ByGrowth(ss))

\* filter_aggressive_quality_stocks on loaded stocks
filter_aggressive_quality_stocks(ss) == AggressiveOf(Rescore(ss))

\* {s.nse_code for s in list}
NseCodes(ss, list) == {ss[list[j]].nse_code : j \in DOMAIN list}

\* the loop of filter_medium_quality_stocks over the scored stocks, and its sort
GoodOf(ss, great_nse_codes, aggressive_nse_codes) ==
    Filtered(ss,
             {i \in DOMAIN ss :
                /\ ss[i].nse_code \notin great_nse_codes
                /\ ss[i].nse_code \notin aggressive_nse_codes
                /\ GoodGate(ss[i])},
             "Good", ByQualityScore(ss))

\* filter_medium_quality_stocks(exclude_great, exclude_aggressive) on loaded stocks
filter_medium_quality_stocks(ss, exclude_great, exclude_aggressive) ==
    GoodOf(Rescore(ss), NseCodes(ss, exclude_great), NseCodes(ss, exclude_aggressive))

\* insert a value into a list sorted ascending
RECURSIVE InsertAsc(_, _)
InsertAsc(sorted, x) ==
    IF sorted = <<>> THEN <<x>>
    ELSE IF x < Head(sorted) THEN <<x>> \o sorted
    ELSE <<Head(sorted)>> \o InsertAsc(Tail(sorted), x)

\* sorted(values)
RECURSIVE Sorted(_)
Sorted(values) ==
    IF values = <<>> THEN <<>>
    ELSE InsertAsc(Sorted(SubSeq(values, 1, Len(values) - 1)), values[Len(values)])

\* sum(values)
RECURSIVE Sum(_)
Sum(values) == IF values = <<>> THEN 0 ELSE Head(values) + Sum(Tail(values))

\* [s.<field> for s in self.stocks if s.<field> is not None]
RECURSIVE ScoresPresent(_, _)
ScoresPresent(ss, field) ==
    IF ss = <<>> THEN <<>>
    ELSE (IF Head(ss)[field].some THEN <<Head(ss)[field].v>> ELSE <<>>)
         \o ScoresPresent(Tail(ss), field)

\* stats["durability"] or stats["valuation"]: None for no value, else the min,
\* the max, the avg in hundredths and sorted(values)[len(values) // 2]
ScoreSummary(values) ==
    IF values = <<>> THEN [some |-> FALSE, min |-> 0, max |-> 0, avg |-> 0, median |-> 0]
    ELSE [some |-> TRUE,
          min |-> Sorted(values)[1],
          max |-> Sorted(values)[Len(values)],
          avg |-> RoundDiv(100 * Sum(values), Len(values)),
          median |-> Sorted(values)[(Len(values) \div 2) + 1]]

\* the lower ends of the ranges of stats["score_ranges"]
RangeStarts == {0, 20, 40, 60, 80}

\* lo <= score < lo + 20, the last range taking 100 as well
InRange(score, lo) == lo <= score /\ (score < lo + 20 \/ (lo = 80 /\ score = 100))

\* stats["score_ranges"]: the counts over the stocks with both scores, by score
\* and lower end; the key is absent (an empty function) when no stock has both
ScoreRanges(ss) ==
    LET both == {i \in DOMAIN ss : ss[i].durability_score.some /\ ss[i].valuation_score.some}
    IN  IF both = {} THEN [r \in {} |-> 0]
        ELSE [r \in {"durability_score", "valuation_score"} \X RangeStarts |->
                 Cardinality({i \in both : InRange(ss[i][r[1]].v, r[2])})]

\* get_durability_valuation_stats on loaded stocks
get_durability_valuation_stats(ss) ==
    [total_stocks |-> Len(ss),
     stocks_with_durability_score |-> Len(ScoresPresent(ss, "durability_score")),
     stocks_with_valuation_score |-> Len(ScoresPresent(ss, "valuation_score")),
     stocks_with_both_scores |->
         Cardinality({i \in DOMAIN ss :
                        ss[i].durability_score.some /\ ss[i].valuation_score.some}),
     durability |-> ScoreSummary(ScoresPresent(ss, "durability_score")),
     valuation |-> ScoreSummary(ScoresPresent(ss, "valuation_score")),
     score_ranges |-> ScoreRanges(ss)]

\* a durability test whose bounds are exclusive
DurabilityOkExclusive(stock, min_durability, max_durability) ==
    /\ stock.durability_score.some
    /\ ~(min_durability.some /\ stock.durability_score.v <= min_durability.v)
    /\ ~(max_durability.some /\ stock.durability_score.v >= max_durability.v)

\* the durability test of filter_by_durability_valuation: the score is there
\* and within the bounds that are given
DurabilityOk(stock, min_durability, max_durability) ==
    /\ stock.durability_score.some
    /\ ~(min_durability.some /\ stock.durability_score.v < min_durability.v)
    /\ ~(max_durability.some /\ stock.durability_score.v > max_durability.v)

\* the valuation test of filter_by_durability_valuation
ValuationOk(stock, min_valuation, max_valuation) ==
    /\ stock.valuation_score.some
    /\ ~(min_valuation.some /\ stock.valuation_score.v < min_valuation.v)
    /\ ~(max_valuation.some /\ stock.valuation_score.v > max_valuation.v)

\* x or 0 of an Optional[int]
OrZero(o) == IF Truthy(o) THEN o.v ELSE 0

\* (x.durability_score or 0) + (x.valuation_score or 0)
ByDurabilityValuation(ss) ==
    [i \in DOMAIN ss |-> OrZero(ss[i].durability_score) + OrZero(ss[i].valuation_score)]

\* the loop of filter_by_durability_valuation over the scored stocks, and its sort
DurabilityValuationOf(ss, min_durability, max_durability, min_valuation, max_valuation) ==
    Filtered(ss,
             {i \in DOMAIN ss :
                /\ DurabilityOk(ss[i], min_durability, max_durability)
                /\ ValuationOk(ss[i], min_valuation, max_valuation)},
             "High Durability & Valuation", ByDurabilityValuation(ss))

\* filter_by_durability_valuation on loaded stocks
filter_by_durability_valuation(ss, min_durability, max_durability, min_valuation, max_valuation) ==
    DurabilityValuationOf(Rescore(ss), min_durability, max_durability,
                          min_valuation, max_valuation)

\* the first stock whose NSE code equals nse_code ignoring case, 0 if none
FirstByNseCode(ss, nse_code) ==
    LET match == {i \in DOMAIN ss : Upper(ss[i].nse_code) = Upper(nse_code)}
    IN  IF match = {} THEN 0 ELSE CHOOSE i \in match : \A j \in match : i <= j

\* get_stock_by_nse_code on loaded stocks, the match being at index found (0
\* for None): the stock it returns is scored
ScoreFound(ss, found) ==
    [found |-> found,
     stocks |-> IF found = 0 THEN ss ELSE [ss EXCEPT ![found] = Scored(ss[found])]]

get_stock_by_nse_code(ss, nse_code) == ScoreFound(ss, FirstByNseCode(ss, nse_code))

-----------------------------------------------------------------------------
(* routes/quality_stocks_routes.py *)

\* the attributes of the stock that _stock_to_response reads
ResponseAttributes ==
    {
        "stock_name", "nse_code", "bse_code", "isin", "roe", "roce", "debt_to_equity",
        "interest_coverage", "current_ratio", "current_ratio_ttm", "promoter_holding",
        "promoter_holding_change_qoq", "eps_ttm_growth", "eps_qtr_yoy_growth",
        "basic_eps_qoq_growth", "basic_eps_ttm", "net_profit_3y_growth",
        "net_profit_5y_growth", "net_profit_qoq_growth", "opm_ann", "opm_ttm",
        "npm_ttm", "ebitda_ann", "ebitda_ttm", "ebitda_ann_margin", "peg_ttm",
        "price_to_book", "price_to_book_adjusted", "ev_per_ebitda_ann",
        "price_to_sales_ann", "price_to_sales_ttm", "durability_score",
        "valuation_score", "industry_score", "sector_score", "piotroski_score",
        "altman_zscore", "promoter_pledge_percentage", "sector_roce", "industry_roce",
        "sector_roe", "industry_roe", "sector_peg_ttm", "industry_peg_ttm",
        "sector_pbv_ttm", "industry_pbv_ttm", "sector_net_profit_growth_qtr_qoq",
        "sector_net_profit_growth_ann_yoy", "industry_net_profit_growth_qtr_qoq",
        "industry_net_profit_growth_ann_yoy", "swot_strengths", "swot_weakness",
        "swot_opportunities", "swot_threats", "fc_est_1q_forward_ebit_qtr",
        "fc_est_1q_fwd_cash_eps_qtr", "fc_est_1q_fwd_interest_expense_qtr",
        "quality_score", "quality_tier", "consecutive_positive_quarters",
        "profit_growth_consistency", "margin_stability", "promoter_trend",
        "cash_flow_quality", "roe_trend", "roce_consistency"
    }

\* _stock_to_response raises AttributeError: it reads an attribute the stock lacks
ResponseRaises(stock) == ~(ResponseAttributes \subseteq DOMAIN stock)

\* the StockResponse _stock_to_response builds when it does not raise
_stock_to_response(stock) ==
    [a \in ResponseAttributes \cap DOMAIN stock |-> stock[a]]

-----------------------------------------------------------------------------
(* QualityStocksService.load_stocks.  stocks_by_key is an insertion-       *)
(* ordered dict: a sequence of [key, stock], a replaced value keeping the  *)
(* position of its key.                                                    *)

\* a key that falls back on the stock's name when it has no ISIN and no NSE code
KeyOrName(stock) ==
    IF stock.isin # <<>> THEN stock.isin
    ELSE IF stock.nse_code # <<>> THEN stock.nse_code
    ELSE stock.stock_name

\* stock.isin if stock.isin else stock.nse_code
StockKey(stock) == IF stock.isin # <<>> THEN stock.isin ELSE stock.nse_code

KeyIndex(by_key, key) ==
    IF \E i \in DOMAIN by_key : by_key[i].key = key
    THEN CHOOSE i \in DOMAIN by_key : by_key[i].key = key
    ELSE 0

\* a dedup that never replaces the stored stock: the first row of a key wins
KeepsFirst(existing, stock) == FALSE

\* the replacement test of load_stocks: the new stock has both scores, the old not
PrefersNew(existing, stock) ==
    /\ stock.durability_score.some
    /\ stock.valuation_score.some
    /\ (~existing.durability_score.some \/ ~existing.valuation_score.some)

\* a dedup step that files a replacing stock as the newest entry
StoreStockAtEnd(by_key, stock) ==
    LET stock_key == StockKey(stock)
        at == KeyIndex(by_key, stock_key)
    IN  IF stock_key = <<>> THEN by_key
        ELSE IF at # 0
        THEN (IF PrefersNew(by_key[at].stock, stock)
              THEN Append(SubSeq(by_key, 1, at - 1) \o SubSeq(by_key, at + 1, Len(by_key)),
                          [key |-> stock_key, stock |-> stock])
              ELSE by_key)
        ELSE Append(by_key, [key |-> stock_key, stock |-> stock])

\* the dedup step of load_stocks for a parsed stock
StoreStock(by_key, stock) ==
    LET stock_key == StockKey(stock)
        at == KeyIndex(by_key, stock_key)
    IN  IF stock_key = <<>> THEN by_key
        ELSE IF at # 0
        THEN (IF PrefersNew(by_key[at].stock, stock)
              THEN [by_key EXCEPT ![at].stock = stock]
              ELSE by_key)
        ELSE Append(by_key, [key |-> stock_key, stock |-> stock])

\* the body of the per-row try of load_stocks
LoadRow(by_key, row) ==
    IF RowRaises(row) THEN by_key ELSE StoreStock(by_key, ParseRow(row))

RECURSIVE LoadRows(_, _)
LoadRows(by_key, rows) ==
    IF rows = <<>> THEN by_key
    ELSE LoadRows(LoadRow(by_key, Head(rows)), Tail(rows))

\* the loop over csv_files; fs is the sequence of the files' rows
RECURSIVE LoadFiles(_, _)
LoadFiles(by_key, fs) ==
    IF fs = <<>> THEN by_key
    ELSE LoadFiles(LoadRows(by_key, Head(fs)), Tail(fs))

\* list(stocks_by_key.values())
Values(by_key) == [i \in DOMAIN by_key |-> by_key[i].stock]

\* a load_stocks that adds what it reads to the stocks the service holds
LoadAppends(self_stocks, fs) == self_stocks \o Values(LoadFiles(<<>>, fs))

\* load_stocks: self.stocks after it.  With no CSV file and no csv_path it
\* returns an empty list and assigns nothing; else it returns what it assigns.
load_stocks(self_stocks, fs) ==
    IF fs = <<>> THEN self_stocks ELSE Values(LoadFiles(<<>>, fs))

\* if not self.stocks: self.load_stocks()
EnsureLoaded(self_stocks, fs) ==
    IF self_stocks = <<>> THEN load_stocks(self_stocks, fs) ELSE self_stocks

-----------------------------------------------------------------------------
(* TrendlyneStocksService.  _stocks is an insertion-ordered dict: a        *)
(* sequence of [key, stock].  A TrendlyneStock is [stock, nse_code,        *)
(* bse_code, isin, data, source_files]; last_updated, a wall-clock stamp,  *)
(* is left out.                                                            *)

\* Optional[str]
NoStr == [some |-> FALSE, s |-> <<>>]

SomeStr(s) == [some |-> TRUE, s |-> s]

\* _clean_value on the text of an identity column
CleanStr(cell) ==
    IF cell.k = "none" THEN NoStr
    ELSE LET stripped == Strip(cell.s)
             unquoted == IF Len(stripped) >= 1 /\ Head(stripped) = "\""
                            /\ stripped[Len(stripped)] = "\""
                         THEN SubSeq(stripped, 2, Len(stripped) - 1)
                         ELSE stripped
         IN  IF unquoted = <<>> \/ unquoted = <<"-">> THEN NoStr ELSE SomeStr(unquoted)

\* _clean_value on a token: it is None, or the text itself
CleanCellIsNone(cell) == cell.k \in {"none", "empty", "blank", "dash"}

\* bool(x) of an Optional[str]
StrTruthy(o) == o.some /\ o.s # <<>>

\* _get_stock_key raises: .strip() on None
KeyRaises(row) ==
    \E c \in {"ISIN", "NSE Code", "BSE Code"} : RowGetStr(row, c, <<>>).k = "none"

\* _get_stock_key: <<>> stands for None
_get_stock_key(row) ==
    LET isin == Strip(RowGetStr(row, "ISIN", <<>>).s)
        nse_code == Strip(RowGetStr(row, "NSE Code", <<>>).s)
        bse_code == Strip(RowGetStr(row, "BSE Code", <<>>).s)
    IN  IF isin # <<>> THEN <<"ISIN:", Upper(isin)>>
        ELSE IF nse_code # <<>> THEN <<"NSE:", Upper(nse_code)>>
        ELSE IF bse_code # <<>> THEN <<"BSE:", Upper(bse_code)>>
        ELSE <<>>

\* the row raises in _process_csv_rows: key.strip() on the key None of a
\* row with extra fields, or _get_stock_key
ProcessRaises(row) == row.extra \/ KeyRaises(row)

\* the data dictionary _process_csv_rows makes of a row
RowData(row) ==
    LET kept == {c \in DOMAIN row.cells : c # "Sl No" /\ ~CleanCellIsNone(row.cells[c])}
    IN  [c \in kept |-> row.cells[c]]

\* dict.update
Update(old, new) ==
    [c \in DOMAIN old \cup DOMAIN new |-> IF c \in DOMAIN new THEN new[c] ELSE old[c]]

\* the branch of _process_csv_rows for a key that is cached
MergeStock(existing_stock, nse_code, bse_code, isin, data, file_name) ==
    [existing_stock EXCEPT
        !.nse_code = IF ~StrTruthy(@) /\ StrTruthy(nse_code) THEN nse_code ELSE @,
        !.bse_code = IF ~StrTruthy(@) /\ StrTruthy(bse_code) THEN bse_code ELSE @,
        !.isin = IF ~StrTruthy(@) /\ StrTruthy(isin) THEN isin ELSE @,
        !.data = Update(@, data),
        !.source_files = IF \E i \in DOMAIN @ : @[i] = file_name
                         THEN @ ELSE Append(@, file_name)]

\* the body of the row loop of _process_csv_rows, for a row that does not raise
ProcessRow(cache, row, file_name) ==
    LET stock_key == _get_stock_key(row)
        stock_name == CleanStr(RowGetStr(row, "Stock", <<>>))
        nse_code == CleanStr(RowGetStr(row, "NSE Code", <<>>))
        bse_code == CleanStr(RowGetStr(row, "BSE Code", <<>>))
        isin == CleanStr(RowGetStr(row, "ISIN", <<>>))
        data == RowData(row)
        at == KeyIndex(cache, stock_key)
    IN  IF stock_key = <<>> THEN cache
        ELSE IF ~StrTruthy(stock_name) THEN cache
        ELSE IF at # 0
        THEN [cache EXCEPT ![at].stock =
                  MergeStock(@, nse_code, bse_code, isin, data, file_name)]
        ELSE Append(cache,
                    [key |-> stock_key,
                     stock |-> [stock |-> stock_name.s,
                                nse_code |-> IF StrTruthy(nse_code) THEN nse_code ELSE NoStr,
                                bse_code |-> IF StrTruthy(bse_code) THEN bse_code ELSE NoStr,
                                isin |-> IF StrTruthy(isin) THEN isin ELSE NoStr,
                                data |-> data,
                                source_files |-> <<file_name>>]])

\* _process_csv_rows: the cache after it, and whether it returned (ok) or raised
RECURSIVE _process_csv_rows(_, _, _)
_process_csv_rows(cache, rows, file_name) ==
    IF rows = <<>> THEN [cache |-> cache, ok |-> TRUE]
    ELSE IF ProcessRaises(Head(rows)) THEN [cache |-> cache, ok |-> FALSE]
    ELSE _process_csv_rows(ProcessRow(cache, Head(rows), file_name), Tail(rows), file_name)

\* the except branch of _load_csv_file: if the first read raised, read again
Fallback(first, rows, file_name) ==
    IF first.ok THEN first ELSE _process_csv_rows(first.cache, rows, file_name)

\* _load_csv_file: read as utf-8-sig and, if that raises, once more as utf-8
_load_csv_file(cache, rows, file_name) ==
    Fallback(_process_csv_rows(cache, rows, file_name), rows, file_name)

\* load_all_files over the files fs = <<[name, rows], ...>>: the cache and
\* _loaded_files after it, and the number of files loaded
RECURSIVE load_all_files(_, _, _, _)

\* the end of the loop body of load_all_files, the file having been read
AfterFile(one, loaded, fs, force_reload) ==
    IF one.ok
    THEN [load_all_files(one.cache, loaded \cup {Head(fs).name}, Tail(fs), force_reload)
            EXCEPT !.files_loaded = @ + 1]
    ELSE load_all_files(one.cache, loaded, Tail(fs), force_reload)

load_all_files(cache, loaded, fs, force_reload) ==
    IF fs = <<>> THEN [cache |-> cache, loaded |-> loaded, files_loaded |-> 0]
    ELSE IF ~force_reload /\ Head(fs).name \in loaded
    THEN load_all_files(cache, loaded, Tail(fs), force_reload)
    ELSE AfterFile(_load_csv_file(cache, Head(fs).rows, Head(fs).name),
                   loaded, fs, force_reload)

\* get_all_stocks: loads when nothing is loaded; the cache and _loaded_files after it
get_all_stocks(cache, loaded, fs) ==
    IF loaded = {} THEN load_all_files(cache, loaded, fs, FALSE)
    ELSE [cache |-> cache, loaded |-> loaded, files_loaded |-> 0]

\* the first cached stock whose field equals the code ignoring case, 0 for None
FirstMatch(cache, field, code) ==
    LET match == {i \in DOMAIN cache :
                    /\ StrTruthy(cache[i].stock[field])
                    /\ Upper(cache[i].stock[field].s) = Upper(code)}
    IN  IF match = {} THEN 0 ELSE CHOOSE i \in match : \A j \in match : i <= j

-----------------------------------------------------------------------------
(* The data folder.  A file is [scores, rows]: whether its header has the  *)
(* Durability Score and Valuation Score columns, and its rows; the file at *)
(* position N of the folder is "trendlyne-filtered (N).csv".  A row is     *)
(* written [id, prof, over, short, extra]: the text of its identity cells, *)
(* the profile its other cells come from, the cells that differ from the   *)
(* profile, whether the line ends after NSE Code, and whether it has more  *)
(* fields than the header.                                                 *)

\* the columns load_stocks reads as numbers, the two score columns apart
MetricColumns ==
    {"Altman Zscore", "Basic EPS 1Q Ago", "Basic EPS 2Q Ago",
      "Basic EPS QoQ Growth %", "Basic EPS Qtr", "Basic EPS TTM",
      "Basic EPS TTM 1Y Ago", "Book Value Inc Reval Reserve Ann ",
      "Capital Adequacy Ratios Ann  %", "Cash EPS 1Y Growth %",
      "Cash EPS Ann ", "Cash EPS Ann  1Y Ago",
      "Cash Flow Return on Assets Ann ",
      "Cash Flow Return on Assets Ann  1Y ago", "Current Ratio Ann ",
      "EBIT Ann  Margin %", "EBITDA Ann ", "EBITDA Ann  margin %",
      "EBITDA Qtr YoY Growth %", "EBITDA TTM", "EPS Qtr YoY Growth %",
      "EPS TTM Growth %", "EV Per EBITDA Ann ", "FC Est  1Q forward EBIT Qtr",
      "Graham No ", "Graham Ratio", "Gross NPA ratio Qtr %",
      "Industry Net Profit Growth Ann  YoY %",
      "Industry Net Profit Growth Qtr QoQ %", "Industry PBV TTM",
      "Industry PE TTM", "Industry PEG TTM", "Industry ROCE", "Industry ROE",
      "Industry Score", "Interest Coverage Ratio Ann ", "Market Cap",
      "NPM Ann  %", "NPM TTM %", "Net Profit 1Q Ago", "Net Profit 2Q Ago",
      "Net Profit Ann ", "Net Profit Ann  1Y Ago", "Net Profit Qtr",
      "OPM 1Q ago %", "OPM Ann  %", "OPM Ann  1Y ago %", "OPM Qtr 4Qtr ago %",
      "Operating Profit Growth Qtr YoY %", "Operating Profit Margin Qtr %",
      "Operating Profit TTM", "Operating Profit TTM 1Y Ago",
      "Operating Rev  growth TTM %", "PBV Adjusted", "PEG TTM",
      "Piotroski Score", "Price To Sales Ann ",
      "Price to Cashflow from Operations", "Price to Sales TTM",
      "Promoter holding change 1Y %", "Promoter holding change 2Y %",
      "Promoter holding change QoQ %", "Promoter holding latest %",
      "Promoter holding pledge percentage % Qtr", "ROCE Ann  %",
      "ROCE Ann  3Y Avg %", "ROCE Ann  5Y Avg %", "ROE Ann  %",
      "ROE Ann  1Y Ago %", "ROE Ann  2Y Ago %", "ROE Ann  3Y Ago %",
      "RoA Ann  %", "RoA Ann  1Y Ago %", "SWOT Opportunities",
      "SWOT Strengths", "SWOT Threats", "SWOT Weakness",
      "Sector Net Profit Growth Ann  YoY %",
      "Sector Net Profit Growth Qtr QoQ %", "Sector PBV TTM", "Sector PE TTM",
      "Sector PEG TTM", "Sector ROCE", "Sector ROE", "Sector Score",
      "TL Checklist Negative Score", "TL Checklist Positive Score",
      "Tobin Q Ratio", "Total Debt to Total Equity Ann ",
      "Working Capital Turnover Ann " }

ScoreColumns == {"Durability Score", "Valuation Score"}

\* the columns of a file other than the identity columns
Header(scores) ==
    {"Sl No"} \cup MetricColumns \cup (IF scores THEN ScoreColumns ELSE {})

\* the cells of a row that passes the Great gate and, with an EPS growth of
\* 22, the Aggressive gate
GreatProfile ==
    "Market Cap" :> Num(50000) @@ "ROE Ann  %" :> Num(250) @@
    "ROCE Ann  %" :> Num(280) @@
    "Total Debt to Total Equity Ann " :> Num(0) @@
    "Interest Coverage Ratio Ann " :> Num(150) @@
    "Current Ratio Ann " :> Num(25) @@
    "Promoter holding latest %" :> Num(600) @@
    "Promoter holding change 1Y %" :> Num(20) @@
    "Promoter holding change QoQ %" :> Num(5) @@
    "EPS TTM Growth %" :> Num(220) @@
    "Operating Rev  growth TTM %" :> Num(180) @@
    "Net Profit Ann " :> Num(1130) @@ "Net Profit Ann  1Y Ago" :> Num(1000) @@
    "OPM Ann  %" :> Num(200) @@ "OPM Ann  1Y ago %" :> Num(200) @@
    "PEG TTM" :> Num(10) @@ "Industry PBV TTM" :> Num(8) @@
    "EV Per EBITDA Ann " :> Num(70) @@ "Durability Score" :> Num(800) @@
    "Valuation Score" :> Num(600) @@ "Piotroski Score" :> Num(90) @@
    "Altman Zscore" :> Num(35) @@ "Tobin Q Ratio" :> Num(10) @@
    "Graham No " :> Num(30000) @@ "RoA Ann  %" :> Num(120) @@
    "RoA Ann  1Y Ago %" :> Num(100) @@
    "Cash Flow Return on Assets Ann " :> Num(120) @@
    "Cash Flow Return on Assets Ann  1Y ago" :> Num(100) @@
    "Cash EPS 1Y Growth %" :> Num(250) @@
    "Working Capital Turnover Ann " :> Num(120) @@
    "Operating Profit TTM" :> Num(1300) @@
    "Operating Profit TTM 1Y Ago" :> Num(1000) @@
    "EBITDA Ann  margin %" :> Num(300) @@
    "EBITDA Qtr YoY Growth %" :> Num(200) @@ "Price to Sales TTM" :> Num(8) @@
    "Price to Cashflow from Operations" :> Num(80) @@
    "ROCE Ann  3Y Avg %" :> Num(270) @@ "ROCE Ann  5Y Avg %" :> Num(260) @@
    "ROE Ann  1Y Ago %" :> Num(230) @@ "ROE Ann  2Y Ago %" :> Num(210) @@
    "ROE Ann  3Y Ago %" :> Num(190) @@
    "Promoter holding pledge percentage % Qtr" :> Num(0) @@
    "Industry Score" :> Num(500) @@ "Sector Score" :> Num(500) @@
    "TL Checklist Positive Score" :> Num(150) @@
    "TL Checklist Negative Score" :> Num(20) @@
    "Gross NPA ratio Qtr %" :> Num(5) @@
    "Capital Adequacy Ratios Ann  %" :> Num(160) @@
    "Basic EPS Qtr" :> Num(50) @@ "Basic EPS 1Q Ago" :> Num(40) @@
    "Basic EPS 2Q Ago" :> Num(30) @@ "Net Profit Qtr" :> Num(300) @@
    "Net Profit 1Q Ago" :> Num(280) @@ "Net Profit 2Q Ago" :> Num(250)

\* the cells of a row that passes the Aggressive and the Good gate and, with
\* a score under 70, not the Great gate
AggressiveProfile ==
   ("ROE Ann  %" :> Num(110) @@ "ROCE Ann  %" :> Num(130) @@
    "Total Debt to Total Equity Ann " :> Num(12) @@
    "Interest Coverage Ratio Ann " :> Num(25) @@
    "Current Ratio Ann " :> Num(11) @@ "EPS TTM Growth %" :> Num(160) @@
    "Altman Zscore" :> Num(17) @@ "RoA Ann  %" :> Num(40) @@
    "RoA Ann  1Y Ago %" :> Num(30) @@ "ROCE Ann  3Y Avg %" :> Num(130) @@
    "ROCE Ann  5Y Avg %" :> Num(120) @@ "ROE Ann  1Y Ago %" :> Num(100) @@
    "ROE Ann  2Y Ago %" :> Num(90) @@ "ROE Ann  3Y Ago %" :> Num(80) @@
    "Promoter holding pledge percentage % Qtr" :> Num(350))
    @@ GreatProfile

\* the cells of a row that passes the Good gate only
GoodProfile ==
   ("ROE Ann  %" :> Num(90) @@ "ROCE Ann  %" :> Num(110) @@
    "Total Debt to Total Equity Ann " :> Num(18) @@
    "Interest Coverage Ratio Ann " :> Num(18) @@
    "EPS TTM Growth %" :> Num(50) @@
    "Operating Rev  growth TTM %" :> Num(80) @@ "RoA Ann  %" :> Num(20) @@
    "RoA Ann  1Y Ago %" :> Num(10) @@ "ROCE Ann  3Y Avg %" :> Num(110) @@
    "ROCE Ann  5Y Avg %" :> Num(100) @@ "ROE Ann  1Y Ago %" :> Num(80) @@
    "ROE Ann  2Y Ago %" :> Num(70) @@ "ROE Ann  3Y Ago %" :> Num(60) @@
    "Promoter holding pledge percentage % Qtr" :> Num(450))
    @@ AggressiveProfile

\* the cells of a row that passes no gate
PoorProfile ==
    "Market Cap" :> Num(1000) @@ "ROE Ann  %" :> Num(50)

Profile(prof) ==
    CASE prof = "great" -> GreatProfile
      [] prof = "aggressive" -> AggressiveProfile
      [] prof = "good" -> GoodProfile
      [] OTHER -> PoorProfile

\* no cell differs from the profile
NoOver == [c \in {} |-> Empty]

Row(stock, nse, bse, isin, prof, over) ==
    [id |-> [c \in IdColumns |->
                CASE c = "Stock" -> Str(stock)
                  [] c = "NSE Code" -> Str(nse)
                  [] c = "BSE Code" -> Str(bse)
                  [] OTHER -> Str(isin)],
     prof |-> prof, over |-> over, short |-> FALSE, extra |-> FALSE]

\* the line ends after NSE Code: DictReader gives None for the other cells
Short(row) ==
    [row EXCEPT !.id = [c \in IdColumns |->
                           IF c \in {"Stock", "NSE Code"} THEN row.id[c] ELSE StrNone],
                !.short = TRUE]

\* the line has one field more than the header
Long(row) == [row EXCEPT !.extra = TRUE]

\* the dict csv.DictReader makes of a line of a file with the given header
DictRow(row, scores) ==
    [id |-> row.id,
     cells |-> [c \in Header(scores) |->
                  IF row.short THEN NoneCell
                  ELSE IF c \in DOMAIN row.over THEN row.over[c]
                  ELSE IF c = "Sl No" THEN Num(10)
                  ELSE IF c \in DOMAIN Profile(row.prof) THEN Profile(row.prof)[c]
                  ELSE Empty],
     extra |-> row.extra]

\* the rows csv.DictReader yields for a file
DictRows(file) == [i \in DOMAIN file.rows |-> DictRow(file.rows[i], file.scores)]

\* what the QualityStocksService reads: the rows of the files, by file number
QualityFiles(folder) == [n \in DOMAIN folder |-> DictRows(folder[n])]

\* what the TrendlyneStocksService reads: the files with their names
TrendlyneFiles(folder) ==
    [n \in DOMAIN folder |-> [name |-> n, rows |-> DictRows(folder[n])]]

INEA == <<"I", "N", "E", "A">>

INEB == <<"I", "N", "E", "B">>

INEE == <<"I", "N", "E", "E">>

INEN == <<"I", "N", "E", "N">>

\* instrument A, a Great stock, with every cell of its profile
RowA == Row(<<"A">>, <<"a">>, <<"1">>, INEA, "great", NoOver)

\* instrument A without its two Trendlyne scores
RowAUnscored ==
    Row(<<"A">>, <<"a">>, <<"1">>, INEA, "great",
        "Durability Score" :> Empty @@ "Valuation Score" :> Dash)

\* instrument A with its two scores and without its PEG and its Piotroski score
RowAScored ==
    Row(<<"A">>, <<"a">>, <<"1">>, <<" ">> \o INEA, "great",
        "PEG TTM" :> Empty @@ "Piotroski Score" :> NA)

\* instrument B, an Aggressive stock
RowB == Row(<<"B">>, <<"B">>, <<"2">>, INEB, "aggressive", NoOver)

\* instrument E, a Good stock listed without an ISIN
RowE == Row(<<"E">>, <<"e">>, <<>>, <<>>, "good", NoOver)

\* instrument N, a Good stock listed without an NSE code
RowN == Row(<<"N">>, <<>>, <<"3">>, INEN, "good", NoOver)

\* instrument N with the NSE code it has been listed under
RowNListed == Row(<<"N">>, <<"n">>, <<"3">>, INEN, "good", NoOver)

\* a Great stock listed without an NSE code
RowGreatBse == Row(<<"E">>, <<>>, <<"4">>, INEE, "great", NoOver)

\* a stock that passes no gate, its scores written as text and as a dash
RowPoor ==
    Row(<<"B">>, <<"b">>, <<"-">>, <<>>, "poor",
        "Durability Score" :> Text @@ "Valuation Score" :> Comma(-12000))

\* a line without any identity but a name
RowNoId == Row(<<"N">>, <<" ">>, <<>>, <<>>, "good", NoOver)

\* a line without a stock name
RowNoName == Row(<<" ">>, <<"N">>, <<>>, INEN, "good", NoOver)

\* the three tiers in one file
FileMain == [scores |-> TRUE, rows |-> <<RowA, RowB, RowE>>]

\* an export without the score columns
FileBare == [scores |-> FALSE, rows |-> <<RowA, RowN>>]

\* a later export with the score columns, some cells of A now empty
FileScored == [scores |-> TRUE, rows |-> <<RowAScored, RowGreatBse, RowN>>]

\* instrument A twice in one file, first without its scores
FileDup == [scores |-> TRUE, rows |-> <<RowAUnscored, RowAScored>>]

\* a file that begins with a short line
FileBad == [scores |-> TRUE, rows |-> <<Short(RowA), RowPoor, RowB>>]

\* a file of lines without identity or name, and a long line
FileOdd == [scores |-> TRUE, rows |-> <<RowNoId, RowNoName, Long(RowE)>>]

\* a later export whose line for instrument N has the scores but no name
FileNameless == [scores |-> TRUE, rows |-> <<RowNoName>>]

\* a file with a short line between two good lines
FileTorn == [scores |-> TRUE, rows |-> <<RowN, Short(RowB), RowGreatBse>>]

\* a later export in which instrument N has its NSE code
FileListed == [scores |-> TRUE, rows |-> <<RowNListed>>]

\* the data folders a run starts from
Folders ==
    { <<>>, <<FileMain>>, <<FileBare, FileScored>>, <<FileDup>>, <<FileBad>>,
      <<FileOdd>>, <<FileMain, FileOdd>>, <<FileBare, FileNameless>>,
      <<FileMain, FileTorn>>, <<FileBare, FileListed>> }

\* folder a is folder b without some of its last files
IsPrefix(a, b) == Len(a) < Len(b) /\ SubSeq(b, 1, Len(a)) = a

MaxEdits == 1

-----------------------------------------------------------------------------
(* The handlers.  A response is [op, status, body]; an exception a handler *)
(* turns into an HTTPException shows as its status code.                   *)

NoTiers == [op |-> "none", great |-> <<>>, aggressive |-> <<>>, good |-> <<>>]

NoResponse == [op |-> "none", status |-> 0, body |-> <<>>]

\* [_stock_to_response(stock) for stock in list] raises
ListRaises(ss, list) == \E j \in DOMAIN list : ResponseRaises(ss[list[j]])

\* QualityStocksResponse(count, tier, stocks).model_dump()
QualityStocksResponse(ss, list, tier) ==
    [count |-> Len(list), tier |-> tier,
     stocks |-> [j \in DOMAIN list |-> _stock_to_response(ss[list[j]])]]

\* the response of a tier handler: 500 from its except branch, else the body
TierResponse(op, raises, body) ==
    IF raises THEN [op |-> op, status |-> 500, body |-> <<>>]
    ELSE [op |-> op, status |-> 200, body |-> body]

\* a handler of GET /stock/{nse_code} that lets the missing stock reach the
\* conversion, whose exception its except branch turns into a 500
NotFoundFails(ss, found) ==
    IF found = 0 \/ ResponseRaises(ss[found])
    THEN [op |-> "stock", status |-> 500, body |-> <<>>]
    ELSE [op |-> "stock", status |-> 200, body |-> _stock_to_response(ss[found])]

\* the response of GET /stock/{nse_code}
StockResponse(ss, found) ==
    IF found = 0 THEN [op |-> "stock", status |-> 404, body |-> <<>>]
    ELSE IF ResponseRaises(ss[found]) THEN [op |-> "stock", status |-> 500, body |-> <<>>]
    ELSE [op |-> "stock", status |-> 200, body |-> _stock_to_response(ss[found])]

\* the identifiers a client asks for
Codes == {<<"a">>, <<"3">>, <<"i", "n", "e", "A">>, <<"I", "N", "E", "Z">>}

\* QualityStocksService.load_stocks(), called on the module's service
LoadStocks ==
    /\ stocks' = load_stocks(stocks, QualityFiles(files))
    /\ tiers' = NoTiers
    /\ resp' = [op |-> "load_stocks", status |-> 0, body |-> <<>>]
    /\ UNCHANGED <<files, edits, t_service, t_stocks, t_loaded, probe, result>>

\* GET /great
get_great_quality_stocks ==
    \E r \in {filter_great_quality_stocks(EnsureLoaded(stocks, QualityFiles(files)))} :
        /\ stocks' = r.stocks
        /\ tiers' = [NoTiers EXCEPT !.op = "great", !.great = r.list]
        /\ resp' = TierResponse("great", ListRaises(r.stocks, r.list),
                                QualityStocksResponse(r.stocks, r.list, "Great"))
        /\ UNCHANGED <<files, edits, t_service, t_stocks, t_loaded, probe, result>>

\* GET /aggressive
get_aggressive_quality_stocks ==
    \E r \in {filter_aggressive_quality_stocks(EnsureLoaded(stocks, QualityFiles(files)))} :
        /\ stocks' = r.stocks
        /\ tiers' = [NoTiers EXCEPT !.op = "aggressive", !.aggressive = r.list]
        /\ resp' = TierResponse("aggressive", ListRaises(r.stocks, r.list),
                                QualityStocksResponse(r.stocks, r.list, "Aggressive"))
        /\ UNCHANGED <<files, edits, t_service, t_stocks, t_loaded, probe, result>>

\* GET /good
get_good_quality_stocks ==
    \E r \in {filter_medium_quality_stocks(EnsureLoaded(stocks, QualityFiles(files)),
                                           <<>>, <<>>)} :
        /\ stocks' = r.stocks
        /\ tiers' = [NoTiers EXCEPT !.op = "good", !.good = r.list]
        /\ resp' = TierResponse("good", ListRaises(r.stocks, r.list),
                                QualityStocksResponse(r.stocks, r.list, "Good"))
        /\ UNCHANGED <<files, edits, t_service, t_stocks, t_loaded, probe, result>>

\* the dict GET /all returns
AllResponse(ss, great, aggressive, good) ==
    TierResponse("all",
                 ListRaises(ss, great) \/ ListRaises(ss, aggressive) \/ ListRaises(ss, good),
                 [great |-> QualityStocksResponse(ss, great, "Great"),
                  aggressive |-> QualityStocksResponse(ss, aggressive, "Aggressive"),
                  good |-> QualityStocksResponse(ss, good, "Good")])

\* GET /all
get_all_quality_stocks ==
    \E fs \in {QualityFiles(files)} :
    \E great \in {filter_great_quality_stocks(EnsureLoaded(stocks, fs))} :
    \E aggressive \in {filter_aggressive_quality_stocks(EnsureLoaded(great.stocks, fs))} :
    \E good \in {filter_medium_quality_stocks(EnsureLoaded(aggressive.stocks, fs),
                                              great.list, aggressive.list)} :
        /\ stocks' = good.stocks
        /\ tiers' = [op |-> "all", great |-> great.list,
                     aggressive |-> aggressive.list, good |-> good.list]
        /\ resp' = AllResponse(good.stocks, great.list, aggressive.list, good.list)
        /\ UNCHANGED <<files, edits, t_service, t_stocks, t_loaded, probe, result>>

\* GET /stock/{nse_code}
get_stock_by_nse_code_route(nse_code) ==
    \E r \in {get_stock_by_nse_code(EnsureLoaded(stocks, QualityFiles(files)), nse_code)} :
        /\ stocks' = r.stocks
        /\ tiers' = NoTiers
        /\ resp' = StockResponse(r.stocks, r.found)
        /\ UNCHANGED <<files, edits, t_service, t_stocks, t_loaded, probe, result>>

\* get_trendlyne_stocks_service(): the singleton, made and loaded on first use
get_trendlyne_stocks_service(fs) ==
    IF t_service THEN [cache |-> t_stocks, loaded |-> t_loaded, files_loaded |-> 0]
    ELSE load_all_files(<<>>, {}, fs, FALSE)

\* the service after get_all_stocks, and the stock a lookup finds in it
Found(all, field, code) ==
    [cache |-> all.cache, loaded |-> all.loaded,
     found |-> FirstMatch(all.cache, field, code)]

\* get_stock_by_isin, get_stock_by_nse_code, get_stock_by_bse_code of the service
Lookup(service, fs, field, code) ==
    Found(get_all_stocks(service.cache, service.loaded, fs), field, code)

\* if identifier.upper().startswith("INE"): stock = service.get_stock_by_isin(identifier)
TryIsin(service, fs, identifier) ==
    IF StartsWith(Upper(identifier), <<"I", "N", "E">>)
    THEN Lookup(service, fs, "isin", identifier)
    ELSE [cache |-> service.cache, loaded |-> service.loaded, found |-> 0]

\* the next lookup of get_stock_by_identifier, unless the stock is found
TryNext(tried, fs, field, identifier) ==
    IF tried.found # 0 THEN tried ELSE Lookup(tried, fs, field, identifier)

\* GET /api/trendlyne-stocks/{identifier}
get_stock_by_identifier(identifier) ==
    \E fs \in {TrendlyneFiles(files)} :
    \E r \in {TryNext(TryNext(TryIsin(get_trendlyne_stocks_service(fs), fs, identifier),
                              fs, "nse_code", identifier),
                      fs, "bse_code", identifier)} :
        /\ t_service' = TRUE
        /\ t_stocks' = r.cache
        /\ t_loaded' = r.loaded
        /\ resp' = IF r.found = 0
                   THEN [op |-> "identifier", status |-> 404, body |-> <<>>]
                   ELSE [op |-> "identifier", status |-> 200, body |-> r.cache[r.found].stock]
        /\ tiers' = NoTiers
        /\ UNCHANGED <<files, edits, stocks, probe, result>>

\* the service after get_all_stocks
AllStocks(service, fs) == get_all_stocks(service.cache, service.loaded, fs)

\* GET /api/trendlyne-stocks without filters
get_trendlyne_stocks ==
    \E fs \in {TrendlyneFiles(files)} :
    \E all \in {AllStocks(get_trendlyne_stocks_service(fs), fs)} :
        /\ t_service' = TRUE
        /\ t_stocks' = all.cache
        /\ t_loaded' = all.loaded
        /\ resp' = [op |-> "list", status |-> 200, body |-> Len(all.cache)]
        /\ tiers' = NoTiers
        /\ UNCHANGED <<files, edits, stocks, probe, result>>

\* the statistics refresh_data returns
RefreshStats(old_count, r) ==
    [files_loaded |-> r.files_loaded,
     stocks_before |-> old_count,
     stocks_after |-> Len(r.cache),
     stocks_added |-> Len(r.cache) - old_count,
     total_files_processed |-> Cardinality(r.loaded)]

\* TrendlyneStocksService.refresh_data: the service after it
refresh_data(service, fs) == load_all_files(service.cache, service.loaded, fs, TRUE)

\* POST /api/trendlyne-stocks/refresh
refresh_stocks ==
    \E fs \in {TrendlyneFiles(files)} :
    \E service \in {get_trendlyne_stocks_service(fs)} :
    \E r \in {refresh_data(service, fs)} :
        /\ t_service' = TRUE
        /\ t_stocks' = r.cache
        /\ t_loaded' = r.loaded
        /\ resp' = [op |-> "refresh", status |-> 200,
                    body |-> RefreshStats(Len(service.cache), r)]
        /\ tiers' = NoTiers
        /\ UNCHANGED <<files, edits, stocks, probe, result>>

\* files are added to the data folder or removed from it; a run is followed
\* through MaxEdits such changes, each made when load_stocks has just run
EditFiles ==
    /\ edits < MaxEdits
    /\ resp.op = "load_stocks"
    /\ \E folder \in Folders :
          /\ IsPrefix(folder, files) \/ IsPrefix(files, folder)
          /\ files' = folder
    /\ edits' = edits + 1
    /\ UNCHANGED <<stocks, tiers, t_service, t_stocks, t_loaded, resp, probe, result>>

NoProbe == [stock_name |-> <<>>]

Init ==
    /\ files \in Folders
    /\ edits = 0
    /\ stocks = <<>>
    /\ tiers = NoTiers
    /\ t_service = FALSE
    /\ t_stocks = <<>>
    /\ t_loaded = {}
    /\ resp = NoResponse
    /\ probe = NoProbe
    /\ result = [op |-> "none", status |-> 0, body |-> <<>>]

Next ==
    \/ LoadStocks
    \/ get_great_quality_stocks
    \/ get_aggressive_quality_stocks
    \/ get_good_quality_stocks
    \/ get_all_quality_stocks
    \/ \E nse_code \in Codes : get_stock_by_nse_code_route(nse_code)
    \/ \E identifier \in Codes : get_stock_by_identifier(identifier)
    \/ get_trendlyne_stocks
    \/ refresh_stocks
    \/ EditFiles

Spec == Init /\ [][Next]_vars

-----------------------------------------------------------------------------
(* The scoring functions on their own: a stock is parsed from a row that   *)
(* differs from a profile in one cell, scored, and put to the three gates. *)

\* the cells put in place of a profile's: values on both sides of the gates'
\* thresholds, and scores below zero
KnobCells ==
    [ {"ROE Ann  %"} -> {Num(80), Num(81), Num(100), Num(101), Num(120), Num(121)} ]
    \cup [ {"ROCE Ann  %"} -> {Num(100), Num(101), Num(120), Num(121), Num(150), Num(151)} ]
    \cup [ {"Total Debt to Total Equity Ann "} ->
             {Num(9), Num(10), Num(14), Num(15), Num(19), Num(20)} ]
    \cup [ {"Interest Coverage Ratio Ann "} ->
             {Num(15), Num(16), Num(20), Num(21), Num(30), Num(31)} ]
    \cup [ {"RoA Ann  %"} -> {Num(30), Num(31), Num(50), Num(51)} ]
    \cup [ {"Promoter holding pledge percentage % Qtr"} ->
             {Num(299), Num(300), Num(399), Num(400), Num(499), Num(500)} ]
    \cup [ {"Altman Zscore"} -> {Empty, Num(15), Num(16), Num(18), Num(19)} ]
    \cup [ {"Durability Score", "Valuation Score", "Piotroski Score", "Industry Score",
            "Sector Score"} -> {Num(-1000), Num(-10), Dash, Num(1000)} ]
    \cup {NoOver}

\* the stock load_stocks makes of a row of the profile with the cells over
Probe(prof, over) ==
    ParseRow(DictRow(Row(<<"A">>, <<"A">>, <<"1">>, INEA, prof, over), TRUE))

NoResult == [op |-> "none", status |-> 0, body |-> <<>>]

InitScore ==
    /\ files = <<>>
    /\ edits = 0
    /\ stocks = <<>>
    /\ tiers = NoTiers
    /\ t_service = FALSE
    /\ t_stocks = <<>>
    /\ t_loaded = {}
    /\ resp = NoResponse
    /\ \E prof \in {"great", "aggressive", "good", "poor"} :
       \E over \in KnobCells :
          probe = Probe(prof, over)
    /\ result = NoResult

\* stock.quality_score = self.calculate_quality_score(stock)
ScoreProbe ==
    /\ result.op = "none"
    /\ probe' = Scored(probe)
    /\ result' = [op |-> "score", status |-> 0, body |-> calculate_quality_score(probe)]
    /\ UNCHANGED <<files, edits, stocks, tiers, t_service, t_stocks, t_loaded, resp>>

\* the conditions of the three filters on the scored stock
GateProbe ==
    /\ result.op = "score"
    /\ result' = [op |-> "gates", status |-> 0,
                  body |-> [great |-> GreatChecks(probe),
                            aggressive |-> AggressiveChecks(probe),
                            good |-> GoodChecks(probe)]]
    /\ UNCHANGED <<files, edits, stocks, tiers, t_service, t_stocks, t_loaded, resp, probe>>

NextScore == ScoreProbe \/ GateProbe

SpecScore == InitScore /\ [][NextScore]_vars

-----------------------------------------------------------------------------
(* The routes under /durability-valuation, on folders whose lines differ   *)
(* in the two Trendlyne scores.  result holds what the service function    *)
(* returned, resp what the route answers.                                  *)

\* the cells of the two scores
Scores(durability, valuation) ==
    "Durability Score" :> durability @@ "Valuation Score" :> valuation

\* a line of a stock that passes no gate, with the two scores
IndexRow(name, durability, valuation) ==
    Row(<<name>>, <<name>>, <<>>, <<"I", "N", "E", name>>, "poor",
        Scores(durability, valuation))

\* seven stocks: four with both scores, two sums equal, one score of 0, and
\* an even number of durability scores
FileIndex ==
    [scores |-> TRUE,
     rows |-> << IndexRow("P", Num(700), Num(500)), IndexRow("Q", Num(800), Num(530)),
                 IndexRow("R", Num(690), Num(700)), IndexRow("S", Dash, Num(600)),
                 IndexRow("T", Num(550), Num(650)), IndexRow("U", Num(1000), Empty),
                 IndexRow("V", Num(0), Num(0)) >>]

\* two stocks, one of them with both scores
FileIndexSmall ==
    [scores |-> TRUE,
     rows |-> << IndexRow("P", Num(400), Num(990)), IndexRow("S", Dash, Num(200)) >>]

IndexFolders == { <<>>, <<FileBare>>, <<FileMain>>, <<FileIndex>>, <<FileIndexSmall>> }

\* the bounds a client asks GET /durability-valuation with
Bounds == {None, Some(70)}

\* the filter's outcome, as result and as the route's response
DurabilityValuationResult(op, r, asked) ==
    /\ stocks' = r.stocks
    /\ tiers' = NoTiers
    /\ result' = [op |-> op, status |-> 0, body |-> [asked |-> asked, list |-> r.list]]
    /\ resp' = TierResponse(op, ListRaises(r.stocks, r.list),
                            QualityStocksResponse(r.stocks, r.list,
                                                  <<"Durability & Valuation", asked>>))
    /\ UNCHANGED <<files, edits, t_service, t_stocks, t_loaded, probe>>

\* GET /durability-valuation/stats
get_durability_valuation_stats_route ==
    \E ss \in {EnsureLoaded(stocks, QualityFiles(files))} :
    \E stats \in {get_durability_valuation_stats(ss)} :
        /\ stocks' = ss
        /\ tiers' = NoTiers
        /\ result' = [op |-> "stats", status |-> 0, body |-> stats]
        /\ resp' = [op |-> "stats", status |-> 200, body |-> stats]
        /\ UNCHANGED <<files, edits, t_service, t_stocks, t_loaded, probe>>

\* GET /durability-valuation/best
get_best_durability_valuation_stocks ==
    \E asked \in {<<Some(70), None, Some(50), None>>} :
    \E r \in {filter_by_durability_valuation(EnsureLoaded(stocks, QualityFiles(files)),
                                             asked[1], asked[2], asked[3], asked[4])} :
        DurabilityValuationResult("best", r, asked)

\* GET /durability-valuation/excellent
get_excellent_durability_valuation_stocks ==
    \E asked \in {<<Some(80), None, Some(53), None>>} :
    \E r \in {filter_by_durability_valuation(EnsureLoaded(stocks, QualityFiles(files)),
                                             asked[1], asked[2], asked[3], asked[4])} :
        DurabilityValuationResult("excellent", r, asked)

\* the defaults of GET /durability-valuation when no bound is given
OrDefaults(asked) ==
    IF asked = <<None, None, None, None>> THEN <<Some(70), None, Some(50), None>> ELSE asked

\* GET /durability-valuation
get_durability_valuation_stocks(min_durability, max_durability, min_valuation, max_valuation) ==
    \E asked \in {OrDefaults(<<min_durability, max_durability, min_valuation, max_valuation>>)} :
    \E r \in {filter_by_durability_valuation(EnsureLoaded(stocks, QualityFiles(files)),
                                             asked[1], asked[2], asked[3], asked[4])} :
        DurabilityValuationResult("durability-valuation", r, asked)

InitIndex ==
    /\ files \in IndexFolders
    /\ edits = 0
    /\ stocks = <<>>
    /\ tiers = NoTiers
    /\ t_service = FALSE
    /\ t_stocks = <<>>
    /\ t_loaded = {}
    /\ resp = NoResponse
    /\ probe = NoProbe
    /\ result = NoResult

NextIndex ==
    \/ LoadStocks
    \/ get_durability_valuation_stats_route
    \/ get_best_durability_valuation_stocks
    \/ get_excellent_durability_valuation_stocks
    \/ \E min_durability \in Bounds, max_durability \in Bounds,
          min_valuation \in Bounds, max_valuation \in Bounds :
          get_durability_valuation_stocks(min_durability, max_durability,
                                          min_valuation, max_valuation)

SpecIndex == InitIndex /\ [][NextIndex]_vars

-----------------------------------------------------------------------------

(* nifty_stocks_routes.py over NiftyStocksService and Firestore.  probe    *)
(* holds the world of these routes: the documents of the nifty_stocks      *)
(* collection and whether the singleton service has been made.  result     *)
(* tells what the backend did for the last request, resp what the route    *)
(* answered.  The text of an exception is held as the two facts the routes *)
(* look for in it.                                                         *)

\* "Firebase" in m or "Firestore" in m; "CSV" in m or "not found" in m.lower()
Messages == [firebase : BOOLEAN, not_found : BOOLEAN]

\* f"Failed to ... from Firebase: {str(e)}"
FromFirebase(message) == [message EXCEPT !.firebase = TRUE]

\* the except Exception branch of the two routes
ErrorStatus(message) ==
    IF message.firebase THEN 503 ELSE IF message.not_found THEN 503 ELSE 500

\* the collections Firestore may hold; the documents are read in this order
Collections ==
    { <<>>,
      << [stockName |-> <<"A", "l">>, nseCode |-> <<"A">>, isin |-> INEA] >>,
      << [stockName |-> <<"A", "l">>, nseCode |-> <<"A">>, isin |-> INEA],
         [stockName |-> <<"E", "n">>, nseCode |-> <<"E">>, isin |-> INEE] >>,
      << [stockName |-> <<"n", "e", "o">>, nseCode |-> <<"N">>, isin |-> INEN] >>,
      << [stockName |-> <<"E", "n">>, nseCode |-> <<"E">>, isin |-> INEE],
         [stockName |-> <<"A", "l">>, nseCode |-> <<"A">>, isin |-> INEA] >>,
      << [stockName |-> <<"E", "l">>, nseCode |-> <<"E">>, isin |-> INEE],
         [stockName |-> <<"N", "e">>, nseCode |-> <<"N">>, isin |-> INEN],
         [stockName |-> <<"n", "e", "o">>, nseCode |-> <<"N">>, isin |-> INEA] >> }

\* the filters a client sends: None, '' or a text
Filters(texts) == {NoStr, SomeStr(<<>>)} \cup {SomeStr(s) : s \in texts}

NseTexts == {<<"a">>, <<"E">>, <<"n">>, <<"Z">>}

IsinTexts == {INEA, <<"i", "n", "e", "E">>, <<"I", "N", "E", "Z">>}

SearchTexts == {<<"l">>, <<"N", "E">>, <<"z">>}

\* sub in s
Contains(s, sub) ==
    \E i \in 1..(Len(s) - Len(sub) + 1) : SubSeq(s, i, i + Len(sub) - 1) = sub

\* the documents a where(field, '==', value).limit(1) query streams
Where(docs, field, value) ==
    LET match == {i \in DOMAIN docs : docs[i][field] = value}
    IN  IF match = {} THEN <<>>
        ELSE <<docs[CHOOSE i \in match : \A j \in match : i <= j]>>

\* NiftyStocksService.get_stock_by_nse_code / get_stock_by_isin when the
\* backend answers: the first match, <<>> standing for None
get_stock_by(docs, field, code) == Where(docs, field, Upper(code))

\* NiftyStocksService.search_by_name when the backend answers
search_by_name(docs, query) ==
    SelectSeq(docs, LAMBDA doc : Contains(Lower(doc.stockName), Lower(query)))

\* what the backend streams for the filters of get_nifty_stocks
NiftyStocksFound(docs, nseCode, isin, search) ==
    IF StrTruthy(nseCode) THEN get_stock_by(docs, "nseCode", nseCode.s)
    ELSE IF StrTruthy(isin) THEN get_stock_by(docs, "isin", isin.s)
    ELSE IF StrTruthy(search) THEN search_by_name(docs, search.s)
    ELSE docs

\* what get_nifty_stocks answers with the stocks found: 404 for no match by
\* a code, else the list
NiftyStocksResponse(by_code, found) ==
    IF by_code /\ found = <<>>
    THEN [status |-> 404, body |-> <<>>]
    ELSE [status |-> 200, body |-> [count |-> Len(found), stocks |-> found]]

\* what get_stock_by_nse_code_path answers with the stocks found
NiftyStockResponse(found) ==
    IF found = <<>> THEN [status |-> 404, body |-> <<>>]
    ELSE [status |-> 200, body |-> found[1]]

\* the request ends with the backend having answered with the stocks found
NiftyAnswered(op, found, response) ==
    /\ probe' = [probe EXCEPT !.service = TRUE]
    /\ result' = [op |-> "answered", status |-> 0, body |-> found]
    /\ resp' = [op |-> op, status |-> response.status, body |-> response.body]

\* get_nifty_stocks_service() raises: NiftyStocksService() could not get its
\* Firestore client, the exception being that of firebase_admin, of
\* google.cloud.firestore or of initialize_firebase; no service is kept
NiftyConstructionFails(op, message) ==
    /\ ~probe.service
    /\ probe' = probe
    /\ result' = [op |-> "construction", status |-> 0, body |-> message]
    /\ resp' = [op |-> op, status |-> ErrorStatus(message), body |-> <<>>]

\* the query or the stream raises inside a method of the service, which
\* raises its own exception with the text of the first in it
NiftyQueryFails(op, message) ==
    /\ probe' = [probe EXCEPT !.service = TRUE]
    /\ result' = [op |-> "query", status |-> 0, body |-> FromFirebase(message)]
    /\ resp' = [op |-> op, status |-> ErrorStatus(FromFirebase(message)), body |-> <<>>]

\* the ways a request to the Nifty routes ends
NiftyRequest(op, found, response) ==
    /\ \/ NiftyAnswered(op, found, response)
       \/ \E message \in Messages : NiftyConstructionFails(op, message)
       \/ \E message \in Messages : NiftyQueryFails(op, message)
    /\ UNCHANGED <<files, edits, stocks, tiers, t_service, t_stocks, t_loaded>>

\* GET /api/nifty-stocks
get_nifty_stocks(nseCode, isin, search) ==
    \E found \in {NiftyStocksFound(probe.docs, nseCode, isin, search)} :
        NiftyRequest("nifty-stocks", found,
                     NiftyStocksResponse(StrTruthy(nseCode) \/ StrTruthy(isin), found))

\* GET /api/nifty-stocks/{nse_code}
get_stock_by_nse_code_path(nse_code) ==
    \E found \in {get_stock_by(probe.docs, "nseCode", nse_code)} :
        NiftyRequest("nifty-stock", found, NiftyStockResponse(found))

InitNifty ==
    /\ files = <<>>
    /\ edits = 0
    /\ stocks = <<>>
    /\ tiers = NoTiers
    /\ t_service = FALSE
    /\ t_stocks = <<>>
    /\ t_loaded = {}
    /\ resp = NoResponse
    /\ probe \in [docs : Collections, service : {FALSE}]
    /\ result = NoResult

NextNifty ==
    \/ \E nseCode \in Filters(NseTexts), isin \in Filters(IsinTexts),
          search \in Filters(SearchTexts) :
          get_nifty_stocks(nseCode, isin, search)
    \/ \E nse_code \in NseTexts : get_stock_by_nse_code_path(nse_code)

SpecNifty == InitNifty /\ [][NextNifty]_vars

-----------------------------------------------------------------------------

(* The two _safe_float functions on Python values.  A value is None, a     *)
(* str, a float or a list; a finite float is held in thousandths.  A call  *)
(* ends as [raises, v]: the exception it raises ("" for none) and the      *)
(* value it returns.                                                       *)

PyNone == [k |-> "None", s |-> <<>>, v |-> 0]

PyStr(s) == [k |-> "str", s |-> s, v |-> 0]

PyFloat(x) == [k |-> "float", s |-> <<>>, v |-> x]

\* float('nan'), and float('inf') with its sign
PyNan == [k |-> "nan", s |-> <<>>, v |-> 0]

PyInf(sign) == [k |-> "inf", s |-> <<>>, v |-> sign]

\* []
PyList == [k |-> "list", s |-> <<>>, v |-> 0]

Returns(value) == [raises |-> "", v |-> value]

Raises(exception) == [raises |-> exception, v |-> PyNone]

Digits == {"0", "1", "2", "3", "4", "5", "6", "7", "8", "9"}

DigitValue(c) ==
    CASE c = "0" -> 0 [] c = "1" -> 1 [] c = "2" -> 2 [] c = "3" -> 3
      [] c = "4" -> 4 [] c = "5" -> 5 [] c = "6" -> 6 [] c = "7" -> 7
      [] c = "8" -> 8 [] OTHER -> 9

\* s.replace(',', '')
RECURSIVE RemoveCommas(_)
RemoveCommas(s) ==
    IF s = <<>> THEN <<>>
    ELSE (IF Head(s) = "," THEN <<>> ELSE <<Head(s)>>) \o RemoveCommas(Tail(s))

\* the number a run of digits writes
RECURSIVE DigitsValue(_)
DigitsValue(s) ==
    IF s = <<>> THEN 0 ELSE 10 * DigitsValue(SubSeq(s, 1, Len(s) - 1)) + DigitValue(s[Len(s)])

\* the places of the text that hold a point
Points(s) == {i \in DOMAIN s : s[i] = "."}

\* the thousandths a run of at most three digits after the point writes
FractionValue(s) ==
    CASE Len(s) = 0 -> 0
      [] Len(s) = 1 -> 100 * DigitsValue(s)
      [] Len(s) = 2 -> 10 * DigitsValue(s)
      [] OTHER -> DigitsValue(SubSeq(s, 1, 3))

\* float() of an unsigned text without surrounding whitespace: digits with
\* at most one point and at least one digit, or inf, infinity or nan in any case
UnsignedFloat(s, sign) ==
    LET point == IF Points(s) = {} THEN Len(s) + 1 ELSE CHOOSE i \in Points(s) : TRUE
        whole == SubSeq(s, 1, point - 1)
        fraction == SubSeq(s, point + 1, Len(s))
    IN  IF Lower(s) \in {<<"i", "n", "f">>, <<"i", "n", "f", "i", "n", "i", "t", "y">>}
        THEN Returns(PyInf(sign))
        ELSE IF Lower(s) = <<"n", "a", "n">> THEN Returns(PyNan)
        ELSE IF /\ Cardinality(Points(s)) <= 1
                /\ Len(whole) + Len(fraction) > 0
                /\ \A i \in DOMAIN s : s[i] \in Digits \cup {"."}
        THEN Returns(PyFloat(sign * (1000 * DigitsValue(whole) + FractionValue(fraction))))
        ELSE Raises("ValueError")

\* float(text)
FloatOfStr(text) ==
    LET s == Strip(text)
    IN  IF s # <<>> /\ Head(s) = "-" THEN UnsignedFloat(Tail(s), -1)
        ELSE IF s # <<>> /\ Head(s) = "+" THEN UnsignedFloat(Tail(s), 1)
        ELSE UnsignedFloat(s, 1)

\* float(value)
Float(value) ==
    CASE value.k = "str" -> FloatOfStr(value.s)
      [] value.k \in {"float", "nan", "inf"} -> Returns(value)
      [] OTHER -> Raises("TypeError")

\* str(value) of a str or of []
StrOf(value) == IF value.k = "str" THEN value.s ELSE <<"[", "]">>

\* a try that catches the TypeError only
ExceptTypeError(outcome, default) ==
    IF outcome.raises = "TypeError" THEN Returns(default) ELSE outcome

\* try: ... except (ValueError, TypeError): return default
ExceptValueTypeError(outcome, default) ==
    IF outcome.raises \in {"ValueError", "TypeError"} THEN Returns(default) ELSE outcome

\* value is None or value == '' or value == '-'
IsPlaceholder(value) ==
    value.k = "None" \/ (value.k = "str" /\ value.s \in {<<>>, <<"-">>})

\* QualityStocksService._safe_float on a Python value; float(str(x)) of a
\* float x is x
service_safe_float(value, default) ==
    IF IsPlaceholder(value) THEN Returns(default)
    ELSE IF value.k \in {"float", "nan", "inf"}
    THEN ExceptValueTypeError(Returns(value), default)
    ELSE ExceptValueTypeError(FloatOfStr(RemoveCommas(StrOf(value))), default)

NullWords ==
    {<<"n", "/", "a">>, <<"n", "a">>, <<"n", "o", "n", "e">>, <<"n", "u", "l", "l">>}

\* _safe_float of routes/trendlyne_quality_routes.py
route_safe_float(value, default) ==
    IF IsPlaceholder(value) THEN Returns(default)
    ELSE IF value.k = "str"
    THEN (LET stripped == Strip(RemoveCommas(value.s))
          IN  IF stripped = <<>> \/ Lower(stripped) \in NullWords
              THEN Returns(default)
              ELSE ExceptValueTypeError(FloatOfStr(stripped), default))
    ELSE ExceptValueTypeError(Float(value), default)

\* the spellings of a word in small and capital letters
CaseVariants(word) ==
    {s \in [DOMAIN word -> {"n", "N", "a", "A", "o", "O", "e", "E", "u", "U", "l", "L", "/"}] :
        Lower(s) = word}

\* the values the claim names: None, '', '-' and the spellings of the null words
Placeholders ==
    {PyNone, PyStr(<<>>), PyStr(<<"-">>)}
    \cup {PyStr(s) : s \in UNION {CaseVariants(word) : word \in NullWords}}

\* other values _safe_float is called with
OtherValues ==
    {PyStr(s) : s \in {<<"1">>, <<"1", "2">>, <<"1", ",", "2", "3", "4">>,
                       <<"-", "1", ".", "5">>, <<"+", "2">>, <<" ", "7", " ">>,
                       <<".">>, <<",">>, <<" ">>, <<"1", ".", "2", ".", "3">>,
                       <<"-", "-", "1">>, <<"1", "-">>, <<"a", "b">>,
                       <<" ", "n", "/", "a">>, <<"n", "a", "n">>, <<"N", "a", "N">>,
                       <<"-", "i", "n", "f">>, <<".", "5">>, <<"5", ".">>,
                       <<"0", ".", "1", "2", "5">>}}
    \cup {PyFloat(1500), PyFloat(0), PyNan, PyInf(-1), PyList}

Defaults == {PyNone, PyFloat(0), PyFloat(-1000)}

InitCoerce ==
    /\ files = <<>>
    /\ edits = 0
    /\ stocks = <<>>
    /\ tiers = NoTiers
    /\ t_service = FALSE
    /\ t_stocks = <<>>
    /\ t_loaded = {}
    /\ resp = NoResponse
    /\ probe \in [value : Placeholders \cup OtherValues, default : Defaults]
    /\ result = NoResult

\* a call of QualityStocksService._safe_float(value, default)
ServiceSafeFloat ==
    /\ result.op = "none"
    /\ \E out \in {service_safe_float(probe.value, probe.default)} :
          result' = [op |-> "service_safe_float", status |-> out.raises, body |-> out.v]
    /\ UNCHANGED <<files, edits, stocks, tiers, t_service, t_stocks, t_loaded, resp, probe>>

\* a call of the routes' _safe_float(value, default)
RouteSafeFloat ==
    /\ result.op = "none"
    /\ \E out \in {route_safe_float(probe.value, probe.default)} :
          result' = [op |-> "route_safe_float", status |-> out.raises, body |-> out.v]
    /\ UNCHANGED <<files, edits, stocks, tiers, t_service, t_stocks, t_loaded, resp, probe>>

NextCoerce == ServiceSafeFloat \/ RouteSafeFloat

SpecCoerce == InitCoerce /\ [][NextCoerce]_vars

-----------------------------------------------------------------------------

(* _get_value_from_data of routes/trendlyne_quality_routes.py.  probe is   *)
(* the call: the field name, the keys of the data dict and the default;    *)
(* the value the dict holds under a key is the key itself, so the value    *)
(* returned tells the key that was found.                                  *)

\* s.replace('  ', ' '): the pairs of spaces, taken from the left, made one
RECURSIVE ReplaceDouble(_)
ReplaceDouble(s) ==
    IF Len(s) < 2 THEN s
    ELSE IF s[1] = " " /\ s[2] = " "
    THEN <<" ">> \o ReplaceDouble(SubSeq(s, 3, Len(s)))
    ELSE <<Head(s)>> \o ReplaceDouble(Tail(s))

\* the first of the names that is a key, <<>> if none is
RECURSIVE FirstKey(_, _)
FirstKey(names, keys) ==
    IF names = <<>> THEN <<>>
    ELSE IF Head(names) \in keys THEN <<Head(names)>>
    ELSE FirstKey(Tail(names), keys)

\* an order of the names that tries the exact name last
VariationsExactLast(excel_field) ==
    <<RStrip(excel_field), ReplaceDouble(excel_field), Strip(excel_field), excel_field>>

\* the names _get_value_from_data tries, in its order
Variations(excel_field) ==
    <<excel_field, RStrip(excel_field), ReplaceDouble(excel_field), Strip(excel_field)>>

\* _get_value_from_data(data, excel_field, default), keys being the keys of data
_get_value_from_data(keys, excel_field, default) ==
    LET hit == FirstKey(Variations(excel_field), keys)
    IN  IF hit = <<>> THEN Returns(default) ELSE Returns(PyStr(hit[1]))

MaxName == 5

\* the field names: texts of the letter a and spaces, with a letter in them
FieldNames ==
    UNION {{s \in [1..n -> {"a", " "}] : \E i \in 1..n : s[i] = "a"} : n \in 1..MaxName}

\* the keys a data dict may have for a field name: the name, texts that
\* differ from it in their spaces, and another column
KeysFor(name) ==
    {name, RStrip(name), ReplaceDouble(name), Strip(name), LStrip(name),
     ReplaceDouble(ReplaceDouble(name)), <<"z">>}

InitColumn ==
    /\ files = <<>>
    /\ edits = 0
    /\ stocks = <<>>
    /\ tiers = NoTiers
    /\ t_service = FALSE
    /\ t_stocks = <<>>
    /\ t_loaded = {}
    /\ resp = NoResponse
    /\ \E name \in FieldNames, default \in {PyNone, PyFloat(0)} :
       \E keys \in SUBSET KeysFor(name) :
          probe = [name |-> name, keys |-> keys, default |-> default]
    /\ result = NoResult

\* a call of _get_value_from_data(data, excel_field, default)
GetValueFromData ==
    /\ result.op = "none"
    /\ \E out \in {_get_value_from_data(probe.keys, probe.name, probe.default)} :
          result' = [op |-> "get_value", status |-> out.raises, body |-> out.v]
    /\ UNCHANGED <<files, edits, stocks, tiers, t_service, t_stocks, t_loaded, resp, probe>>

NextColumn == GetValueFromData

SpecColumn == InitColumn /\ [][NextColumn]_vars

-----------------------------------------------------------------------------
(* The calculated insights of one row.  probe is the line of the file,     *)
(* result the QualityStock load_stocks makes of it.  The cells are decimal *)
(* texts in tenths whose quotients the binary floats of the code compare   *)
(* as the exact numbers do.                                                *)

\* the quarterly EPS columns
EpsCells ==
    [ {"Basic EPS Qtr", "Basic EPS 1Q Ago", "Basic EPS 2Q Ago"} ->
        {Num(-10), Num(0), Num(10), Num(20)} ]

\* the annual and the quarterly net profit columns
ProfitCells ==
    { ("Net Profit Ann " :> a) @@ ("Net Profit Ann  1Y Ago" :> b) @@ q :
        a \in {Num(-100), Num(0), Num(900), Num(1000), Num(1100), Num(1101),
               Num(1150), Num(1151), Num(2000)},
        b \in {Num(-1000), Num(0), Num(1000)},
        q \in [ {"Net Profit Qtr", "Net Profit 1Q Ago", "Net Profit 2Q Ago"} ->
                  {Num(-10), Num(10)} ] }

\* the annual and the quarterly operating margin columns
MarginCells ==
    { ("OPM Ann  %" :> a) @@ ("OPM Ann  1Y ago %" :> b) @@
      ("Operating Profit Margin Qtr %" :> q) @@ ("OPM 1Q ago %" :> Num(5)) :
        a \in {Num(-50), Num(0), Num(4), Num(5), Num(85), Num(86), Num(95), Num(96),
               Num(100), Num(120)},
        b \in {Num(5), Num(100)},
        q \in {Num(4), Num(5), Num(6)} }

InitInsight ==
    /\ files = <<>>
    /\ edits = 0
    /\ stocks = <<>>
    /\ tiers = NoTiers
    /\ t_service = FALSE
    /\ t_stocks = <<>>
    /\ t_loaded = {}
    /\ resp = NoResponse
    /\ \E over \in EpsCells \cup ProfitCells \cup MarginCells :
          probe = Row(<<"A">>, <<"A">>, <<"1">>, INEA, "great", over)
    /\ result = NoResult

\* the body of the row loop of load_stocks: QualityStock(...) and the insights
ParseProbe ==
    /\ result.op = "none"
    /\ result' = [op |-> "parse", status |-> 0, body |-> ParseRow(DictRow(probe, TRUE))]
    /\ UNCHANGED <<files, edits, stocks, tiers, t_service, t_stocks, t_loaded, resp, probe>>

NextInsight == ParseProbe

SpecInsight == InitInsight /\ [][NextInsight]_vars

-----------------------------------------------------------------------------
(* StockAnalyzer.  A Stock is a function from the names of its Optional    *)
(* float fields to Optional numbers, a GreatStockCriteria a record of its  *)
(* Optional thresholds (a function of their names) and its other fields.   *)
(* Metrics and thresholds are whole numbers; the thresholds that are       *)
(* quotients (max_price_to_52w_high, max_pe_vs_sector, ...), the weights   *)
(* and the scores are in hundredths.  The sums of calculate_stock_score    *)
(* are exact fractions [n, d] with d > 0.                                  *)

RECURSIVE GCD(_, _)
GCD(a, b) == IF b = 0 THEN a ELSE GCD(b, a % b)

\* the fraction n / d in lowest terms, d # 0
Frac(n, d) ==
    LET g == GCD(Abs(n), Abs(d))
        sign == IF d < 0 THEN -1 ELSE 1
    IN  [n |-> sign * (n \div g), d |-> sign * (d \div g)]

FracAdd(a, b) == Frac(a.n * b.d + b.n * a.d, a.d * b.d)

\* min(1.0, a)
FracMin1(a) == IF a.n > a.d THEN Frac(1, 1) ELSE a

\* the metrics calculate_stock_score reads for its valuation, profitability
\* and growth components: the Stock field, the threshold, and the formula
ValuationTerms ==
    << <<"pe_ratio", "max_pe_ratio", "below">>,
       <<"pe_ttm", "max_pe_ttm", "below">>,
       <<"peg_ttm", "max_peg_ttm", "below_capped">>,
       <<"pb_ratio", "max_pb_ratio", "below">>,
       <<"price_to_sales", "max_price_to_sales", "below">>,
       <<"pct_days_below_current_pe", "max_pct_days_below_pe", "share">> >>

ProfitabilityTerms ==
    << <<"roe", "min_roe", "above">>,
       <<"roa", "min_roa", "above">>,
       <<"profit_margin", "min_profit_margin", "above">>,
       <<"operating_margin", "min_operating_margin", "above">>,
       <<"operating_profit_margin_qtr", "min_operating_profit_margin_qtr", "above">>,
       <<"piotroski_score", "min_piotroski_score", "piotroski">> >>

GrowthTerms ==
    << <<"revenue_growth", "min_revenue_growth", "above">>,
       <<"profit_growth", "min_profit_growth", "above">>,
       <<"revenue_growth_qtr_yoy", "min_revenue_growth_qtr_yoy", "above">>,
       <<"net_profit_qtr_growth_yoy", "min_net_profit_qtr_growth_yoy", "above">>,
       <<"revenue_qoq_growth", "min_revenue_qoq_growth", "above">>,
       <<"eps_ttm_growth", "min_eps_ttm_growth", "above">> >>

TrendlyneTerms ==
    << <<"trendlyne_durability_score", "min_trendlyne_durability_score", "trendlyne">>,
       <<"trendlyne_valuation_score", "min_trendlyne_valuation_score", "trendlyne">>,
       <<"trendlyne_momentum_score", "min_trendlyne_momentum_score", "trendlyne">> >>

\* the outer if of a metric: it adds 1 to the component's max
TermCounts(stock, criteria, term) ==
    CASE term[3] = "trendlyne" -> stock[term[1]].some
      [] term[3] = "piotroski" -> stock[term[1]].some /\ Truthy(criteria.thresholds[term[2]])
      [] OTHER -> Truthy(stock[term[1]]) /\ Truthy(criteria.thresholds[term[2]])

\* what a metric that counts adds to the component's score
TermScore(stock, criteria, term) ==
    LET x == stock[term[1]].v
        c == criteria.thresholds[term[2]].v
    IN  CASE term[3] = "below" ->
               IF x <= c THEN Frac(c - x, c) ELSE Frac(0, 1)
          [] term[3] = "below_capped" ->
               IF x <= c
               THEN LET capped == FracMin1(Frac(x, c)) IN Frac(capped.d - capped.n, capped.d)
               ELSE Frac(0, 1)
          [] term[3] = "share" ->
               IF x <= c THEN Frac(x, c) ELSE Frac(0, 1)
          [] term[3] = "above" ->
               IF x >= c THEN FracMin1(Frac(x, 2 * c)) ELSE Frac(0, 1)
          [] term[3] = "piotroski" ->
               IF x >= c THEN FracMin1(Frac(x, 9)) ELSE Frac(0, 1)
          [] OTHER ->
               IF Truthy(criteria.thresholds[term[2]]) /\ x < c THEN Frac(0, 1)
               ELSE Frac(x, 100)

\* a component after its metrics: <component>_score and <component>_max
RECURSIVE Component(_, _, _)
Component(stock, criteria, terms) ==
    IF terms = <<>> THEN [score |-> Frac(0, 1), max |-> 0]
    ELSE LET rest == Component(stock, criteria, Tail(terms))
         IN  IF TermCounts(stock, criteria, Head(terms))
             THEN [score |-> FracAdd(TermScore(stock, criteria, Head(terms)), rest.score),
                   max |-> rest.max + 1]
             ELSE rest

\* the components that enter the final score, each with its weight
Components(stock, criteria) ==
    << [c |-> Component(stock, criteria, ValuationTerms), w |-> criteria.valuation_weight],
       [c |-> Component(stock, criteria, ProfitabilityTerms), w |-> criteria.profitability_weight],
       [c |-> Component(stock, criteria, GrowthTerms), w |-> criteria.growth_weight],
       [c |-> IF criteria.use_trendlyne_scores
              THEN Component(stock, criteria, TrendlyneTerms)
              ELSE [score |-> Frac(0, 1), max |-> 0],
        w |-> criteria.trendlyne_weight] >>

\* final_score and total_weight after the components
RECURSIVE Combine(_)
Combine(components) ==
    IF components = <<>> THEN [final_score |-> Frac(0, 1), total_weight |-> 0]
    ELSE LET rest == Combine(Tail(components))
             this == Head(components)
         IN  IF this.c.max > 0
             THEN [final_score |-> FracAdd(Frac(this.c.score.n * 100 * this.w,
                                                this.c.score.d * this.c.max),
                                           rest.final_score),
                   total_weight |-> rest.total_weight + this.w]
             ELSE rest

\* round(final_score / total_weight, 2), or 0.0 without weight, in hundredths
Normalize(combined) ==
    IF combined.total_weight > 0
    THEN RoundDiv(100 * combined.final_score.n,
                  combined.final_score.d * combined.total_weight)
    ELSE 0

calculate_stock_score(stock, criteria) == Normalize(Combine(Components(stock, criteria)))

\* the filters of find_great_stocks in their order: the Stock field, a second
\* field for a quotient, the threshold, and the form of the test
StockFilters ==
    << <<"market_cap", "", "min_market_cap", "min">>,
       <<"market_cap", "", "max_market_cap", "max_required">>,
       <<"pe_ratio", "", "max_pe_ratio", "max">>,
       <<"pb_ratio", "", "max_pb_ratio", "max">>,
       <<"price_to_sales", "", "max_price_to_sales", "max">>,
       <<"roe", "", "min_roe", "min">>,
       <<"roa", "", "min_roa", "min">>,
       <<"profit_margin", "", "min_profit_margin", "min">>,
       <<"operating_margin", "", "min_operating_margin", "min">>,
       <<"revenue_growth", "", "min_revenue_growth", "min">>,
       <<"profit_growth", "", "min_profit_growth", "min">>,
       <<"debt_to_equity", "", "max_debt_to_equity", "max">>,
       <<"current_ratio", "", "min_current_ratio", "min">>,
       <<"quick_ratio", "", "min_quick_ratio", "min">>,
       <<"dividend_yield", "", "min_dividend_yield", "min">>,
       <<"current_price", "week_52_high", "max_price_to_52w_high", "quotient_max">>,
       <<"pe_ttm", "", "max_pe_ttm", "max">>,
       <<"peg_ttm", "", "max_peg_ttm", "max">>,
       <<"operating_profit_margin_qtr", "", "min_operating_profit_margin_qtr", "min">>,
       <<"revenue_growth_qtr_yoy", "", "min_revenue_growth_qtr_yoy", "min">>,
       <<"net_profit_qtr_growth_yoy", "", "min_net_profit_qtr_growth_yoy", "min">>,
       <<"revenue_qoq_growth", "", "min_revenue_qoq_growth", "min">>,
       <<"net_profit_qoq_growth", "", "min_net_profit_qoq_growth", "min">>,
       <<"eps_ttm_growth", "", "min_eps_ttm_growth", "min">>,
       <<"piotroski_score", "", "min_piotroski_score", "min_not_none">>,
       <<"cash_from_operating_annual", "", "min_cash_from_operating_annual", "min">>,
       <<"net_cash_flow_annual", "", "min_net_cash_flow_annual", "min">>,
       <<"trendlyne_durability_score", "", "min_trendlyne_durability_score", "min_not_none">>,
       <<"trendlyne_valuation_score", "", "min_trendlyne_valuation_score", "min_not_none">>,
       <<"trendlyne_momentum_score", "", "min_trendlyne_momentum_score", "min_not_none">>,
       <<"normalized_momentum_score", "", "min_normalized_momentum_score", "min_not_none">>,
       <<"pe_ttm", "sector_pe_ttm", "max_pe_vs_sector", "quotient_max">>,
       <<"pe_ttm", "industry_pe_ttm", "max_pe_vs_industry", "quotient_max">>,
       <<"revenue_growth", "sector_revenue_growth_annual_yoy", "min_revenue_growth_vs_sector",
         "quotient_min">>,
       <<"profit_growth", "sector_net_profit_growth_qtr_yoy", "min_profit_growth_vs_sector",
         "quotient_min">>,
       <<"pct_days_below_current_pe", "", "max_pct_days_below_pe", "max">>,
       <<"pct_days_below_current_pb", "", "max_pct_days_below_pb", "max">> >>

\* the Optional float fields of Stock that the analyzer reads
StockFields ==
    {StockFilters[i][1] : i \in DOMAIN StockFilters}
    \cup ({StockFilters[i][2] : i \in DOMAIN StockFilters} \ {""})

\* the Optional thresholds of GreatStockCriteria
Thresholds == {StockFilters[i][3] : i \in DOMAIN StockFilters}

\* a / b > c / 100 and a / b < c / 100, b # 0
QuotientAbove(a, b, c) == IF b > 0 THEN 100 * a > c * b ELSE 100 * a < c * b

QuotientBelow(a, b, c) == IF b > 0 THEN 100 * a < c * b ELSE 100 * a > c * b

\* the if of a filter holds and the loop continues with the next stock
Continues(stock, criteria, filter) ==
    LET x == stock[filter[1]]
        c == criteria.thresholds[filter[3]]
    IN  /\ Truthy(c)
        /\ CASE filter[4] = "min" -> ~Truthy(x) \/ x.v < c.v
             [] filter[4] = "max_required" -> ~Truthy(x) \/ x.v > c.v
             [] filter[4] = "max" -> Truthy(x) /\ x.v > c.v
             [] filter[4] = "min_not_none" -> ~x.some \/ x.v < c.v
             [] filter[4] = "quotient_max" ->
                  /\ Truthy(x) /\ Truthy(stock[filter[2]])
                  /\ QuotientAbove(x.v, stock[filter[2]].v, c.v)
             [] OTHER ->
                  /\ Truthy(x) /\ Truthy(stock[filter[2]])
                  /\ QuotientBelow(x.v, stock[filter[2]].v, c.v)

\* the stock reaches great_stocks.append((stock, score))
IsGreatStock(stock, criteria) ==
    /\ \A i \in DOMAIN StockFilters : ~Continues(stock, criteria, StockFilters[i])
    /\ ~(Truthy(criteria.min_score)
         /\ calculate_stock_score(stock, criteria) < criteria.min_score.v)

\* float('inf') of the pe_ratio sort key
Infinity == 1000000

\* a or b or otherwise
OrElse(a, b, otherwise) == IF Truthy(a) THEN a.v ELSE IF Truthy(b) THEN b.v ELSE otherwise

\* the sort key of each stock, negated where the sort is ascending
SortKey(given, criteria) ==
    [i \in DOMAIN given |->
        LET stock == given[i]
        IN  CASE criteria.sort_by = "market_cap" -> OrElse(stock["market_cap"], None, 0)
              [] criteria.sort_by = "pe_ratio" ->
                   -OrElse(stock["pe_ratio"], stock["pe_ttm"], Infinity)
              [] criteria.sort_by = "roe" -> OrElse(stock["roe"], None, 0)
              [] criteria.sort_by = "revenue_growth" ->
                   OrElse(stock["revenue_growth"], stock["revenue_growth_qtr_yoy"], 0)
              [] criteria.sort_by = "trendlyne_durability_score" ->
                   OrElse(stock["trendlyne_durability_score"], None, 0)
              [] criteria.sort_by = "trendlyne_valuation_score" ->
                   OrElse(stock["trendlyne_valuation_score"], None, 0)
              [] criteria.sort_by = "trendlyne_momentum_score" ->
                   OrElse(stock["trendlyne_momentum_score"], None, 0)
              [] criteria.sort_by = "piotroski_score" -> OrElse(stock["piotroski_score"], None, 0)
              [] OTHER -> calculate_stock_score(stock, criteria)]

\* find_great_stocks: the positions, in the list given, of the stocks it returns
find_great_stocks(given, criteria) ==
    LET great_stocks ==
            SortDesc(Select(Len(given),
                            {i \in DOMAIN given : IsGreatStock(given[i], criteria)}),
                     SortKey(given, criteria))
    IN  SubSeq(great_stocks, 1, Min(criteria.limit, Len(great_stocks)))

\* a Stock without any metric, and a GreatStockCriteria without any threshold
NoStock == [f \in StockFields |-> None]

NoThresholds == [c \in Thresholds |-> None]

\* the stocks the analyzer is given: an ordinary one, one with a negative PE
\* and ROE and a durability score above 100, one with a ROE of 0 and a
\* negative durability score, a second ordinary one, and one without metrics
AnalyzerStocks ==
    << ("pe_ratio" :> Some(10)) @@ ("roe" :> Some(20)) @@ ("market_cap" :> Some(1000)) @@
       ("trendlyne_durability_score" :> Some(80)) @@ ("current_price" :> Some(90)) @@
       ("week_52_high" :> Some(100)) @@ NoStock,
       ("pe_ratio" :> Some(-10)) @@ ("roe" :> Some(-5)) @@
       ("trendlyne_durability_score" :> Some(150)) @@ ("current_price" :> Some(50)) @@
       ("week_52_high" :> Some(100)) @@ NoStock,
       ("pe_ratio" :> Some(30)) @@ ("roe" :> Some(0)) @@
       ("trendlyne_durability_score" :> Some(-20)) @@ NoStock,
       ("pe_ratio" :> Some(20)) @@ ("roe" :> Some(30)) @@ ("market_cap" :> Some(500)) @@
       ("trendlyne_durability_score" :> Some(70)) @@ ("current_price" :> Some(70)) @@
       ("week_52_high" :> Some(100)) @@ NoStock,
       NoStock >>

\* the weights of the trendlyne, valuation, profitability and growth
\* components: the defaults, all zero, and valuation alone
Weights == { <<30, 20, 25, 25>>, <<0, 0, 0, 0>>, <<0, 100, 0, 0>> }

\* the criteria a caller may send
AnalyzerCriteria ==
    { [thresholds |-> ("max_pe_ratio" :> max_pe_ratio) @@ ("min_roe" :> min_roe) @@
                      ("min_trendlyne_durability_score" :> min_durability) @@
                      ("max_price_to_52w_high" :> max_price) @@ NoThresholds,
       use_trendlyne_scores |-> use,
       trendlyne_weight |-> w[1], valuation_weight |-> w[2],
       profitability_weight |-> w[3], growth_weight |-> w[4],
       min_score |-> min_score, limit |-> limit, sort_by |-> sort_by] :
        max_pe_ratio \in {None, Some(0), Some(25)},
        min_roe \in {None, Some(0), Some(15)},
        min_durability \in {None, Some(60)},
        max_price \in {None, Some(80)},
        use \in BOOLEAN,
        w \in Weights,
        min_score \in {None, Some(0), Some(5000)},
        limit \in {1, 50},
        sort_by \in {"score", "pe_ratio", "unknown"} }

InitAnalyzer ==
    /\ files = <<>>
    /\ edits = 0
    /\ stocks = <<>>
    /\ tiers = NoTiers
    /\ t_service = FALSE
    /\ t_stocks = <<>>
    /\ t_loaded = {}
    /\ resp = NoResponse
    /\ \E criteria \in AnalyzerCriteria :
          probe = [stocks |-> AnalyzerStocks, criteria |-> criteria]
    /\ result = NoResult

\* a call of calculate_stock_score(stock, criteria)
CalculateStockScore(i) ==
    /\ result.op = "none"
    /\ result' = [op |-> "score", status |-> i,
                  body |-> calculate_stock_score(probe.stocks[i], probe.criteria)]
    /\ UNCHANGED <<files, edits, stocks, tiers, t_service, t_stocks, t_loaded, resp, probe>>

\* a call of find_great_stocks(stocks, criteria)
FindGreatStocks ==
    /\ result.op = "none"
    /\ result' = [op |-> "find", status |-> 0,
                  body |-> find_great_stocks(probe.stocks, probe.criteria)]
    /\ UNCHANGED <<files, edits, stocks, tiers, t_service, t_stocks, t_loaded, resp, probe>>

NextAnalyzer ==
    \/ \E i \in DOMAIN probe.stocks : CalculateStockScore(i)
    \/ FindGreatStocks

SpecAnalyzer == InitAnalyzer /\ [][NextAnalyzer]_vars

-----------------------------------------------------------------------------
(* TrendlyneQualityService.  A cached stock is the TrendlyneStock of the   *)
(* Trendlyne cache; the keys of its data are the cleaned column names      *)
(* (_process_csv_rows strips them), its cells the tokens above with their  *)
(* numbers in tenths.  The thresholds of the gates are in hundredths, so   *)
(* 1.15 is 115 and a cell of 1.2 is above it.  _safe_float of this service *)
(* and of QualityStocksService agree on every cell.  _check_valuation      *)
(* feeds passed_criteria only and raises on no cell, and passed_criteria   *)
(* and quality_notes are left out of the entries.                          *)

\* _get_value: the number of a data cell, the default if it is absent or unreadable
_get_value(stock, key, default) ==
    IF key \in DOMAIN stock.data THEN _safe_float(stock.data[key], default) ELSE default

\* value > threshold and value < threshold, the threshold in hundredths
Above(value, threshold) == 10 * value > threshold

Below(value, threshold) == 10 * value < threshold

_check_promoter_holding_stable(stock) ==
    LET holding_change == _get_value(stock, "Promoter holding change QoQ %", 0)
    IN  -10 <= holding_change /\ holding_change <= 100

\* _check_positive_quarters: <<one positive quarter, two positive quarters>>
_check_positive_quarters(stock) ==
    LET eps_qoq == _get_value(stock, "Basic EPS QoQ Growth %", 0)
        eps_qtr_yoy == _get_value(stock, "EPS Qtr YoY Growth %", 0)
        positive_count == (IF eps_qoq > 0 THEN 1 ELSE 0) + (IF eps_qtr_yoy > 0 THEN 1 ELSE 0)
    IN  <<positive_count >= 1, positive_count >= 2>>

_check_profit_growth_consistent(stock) ==
    LET profit_3y == _get_value(stock, "Net Profit 3Y Growth %", 0)
        profit_5y == _get_value(stock, "Net Profit 5Y Growth %", 0)
        profit_qoq == _get_value(stock, "Net Profit QoQ Growth %", 0)
        positive_count == (IF profit_3y > 0 THEN 1 ELSE 0) + (IF profit_5y > 0 THEN 1 ELSE 0)
                          + (IF profit_qoq > 0 THEN 1 ELSE 0)
    IN  positive_count >= 2

_check_margin_stable(stock) ==
    LET opm_ann == _get_value(stock, "OPM Ann  %", 0)
        opm_ttm == _get_value(stock, "OPM TTM %", 0)
    IN  IF opm_ann > 0 /\ opm_ttm > 0
        THEN Abs(opm_ann - opm_ttm) <= 50 \/ opm_ttm >= opm_ann
        ELSE opm_ann > 0 \/ opm_ttm > 0

_check_eps_trend_rising(stock) == _get_value(stock, "EPS TTM Growth %", 0) > 0

_check_sales_growth(stock) ==
    LET profit_3y == _get_value(stock, "Net Profit 3Y Growth %", 0)
        profit_qoq == _get_value(stock, "Net Profit QoQ Growth %", 0)
    IN  profit_3y > 100 \/ profit_qoq > 100

\* the five values each filter extracts from a stock
Extract(stock) ==
    LET current_ratio == _get_value(stock, "Current Ratio Ann", 0)
    IN  [roe |-> _get_value(stock, "ROE Ann  %", 0),
         roce |-> _get_value(stock, "ROCE Ann  %", 0),
         debt_equity |-> _get_value(stock, "Total Debt to Total Equity Ann", 9990),
         interest_coverage |-> _get_value(stock, "Interest Coverage Ratio Ann", 0),
         current_ratio |-> IF current_ratio = 0
                           THEN _get_value(stock, "Current Ratio TTM", 0)
                           ELSE current_ratio]

\* sum([...]) of a list of bool
CountTrue(flags) == Len(SelectSeq(flags, LAMBDA b : b))

\* the condition of filter_great_quality_stocks for a stock
TGreatGate(stock) ==
    LET x == Extract(stock)
    IN  /\ Above(x.roe, 1200)
        /\ Above(x.roce, 1500)
        /\ Below(x.debt_equity, 100)
        /\ Above(x.interest_coverage, 300)
        /\ Above(x.current_ratio, 120)
        /\ _check_promoter_holding_stable(stock)
        /\ _check_positive_quarters(stock)[1]
        /\ _check_sales_growth(stock)
        /\ _check_profit_growth_consistent(stock)
        /\ _check_margin_stable(stock)
        /\ _check_eps_trend_rising(stock)

\* the condition of filter_medium_quality_stocks for a stock, which requires
\* both quarters positive in every case
TMediumGateTwoQuarters(stock) ==
    LET x == Extract(stock)
        core_passed == CountTrue(<<Above(x.roe, 1150), Above(x.roce, 1400),
                                   Below(x.debt_equity, 110),
                                   Above(x.interest_coverage, 280),
                                   Above(x.current_ratio, 115),
                                   _check_promoter_holding_stable(stock)>>)
    IN  /\ core_passed >= 4
        /\ _check_positive_quarters(stock)[2]
        /\ \/ core_passed >= 5
           \/ /\ Above(x.roe, 1400) \/ Above(x.roce, 1700)
              /\ _check_profit_growth_consistent(stock)
              /\ _check_margin_stable(stock)

\* the condition of filter_medium_quality_stocks for a stock, the skip of the
\* Great keys apart
TMediumGate(stock) ==
    LET x == Extract(stock)
        core_passed == CountTrue(<<Above(x.roe, 1150), Above(x.roce, 1400),
                                   Below(x.debt_equity, 110),
                                   Above(x.interest_coverage, 280),
                                   Above(x.current_ratio, 115),
                                   _check_promoter_holding_stable(stock)>>)
        positive_quarters == _check_positive_quarters(stock)[1]
        two_quarters == _check_positive_quarters(stock)[2]
        profit_consistent == _check_profit_growth_consistent(stock)
        margin_stable == _check_margin_stable(stock)
        has_strong_core == core_passed >= 5
        has_exceptional_fundamentals ==
            /\ core_passed >= 4
            /\ Above(x.roe, 1400) \/ Above(x.roce, 1700)
            /\ two_quarters
            /\ profit_consistent
            /\ margin_stable
    IN  \/ /\ has_strong_core
           /\ two_quarters \/ (positive_quarters /\ profit_consistent /\ margin_stable)
        \/ has_exceptional_fundamentals

\* Optional[float] is above 0
Positive(o) == o.some /\ o.v > 0

\* _safe_float(stock.data.get(key), None)
ScoreOf(stock, key) ==
    LET value == IF key \in DOMAIN stock.data THEN stock.data[key] ELSE NoneCell
    IN  IF ParsesAsFloat(value) THEN Some(_safe_float(value, 0)) ELSE None

\* the condition of filter_good_quality_stocks for a stock, the skip of the
\* Great and Medium keys apart
TGoodGate(stock) ==
    LET x == Extract(stock)
        promoter_ok == \/ _check_promoter_holding_stable(stock)
                       \/ Above(x.roe, 100)
                       \/ Above(x.roce, 300)
        core_passed == CountTrue(<<Above(x.roe, 300), Above(x.roce, 400),
                                   Below(x.debt_equity, 400),
                                   Above(x.interest_coverage, 10),
                                   Above(x.current_ratio, 50), promoter_ok>>)
        sales_growth_ok == \/ _check_sales_growth(stock)
                           \/ Above(x.roe, 100)
                           \/ Above(x.roce, 300)
        has_any_quality == core_passed >= 1
        has_any_returns == x.roe > 0 \/ x.roce > 0
        has_any_growth == \/ _check_positive_quarters(stock)[1]
                          \/ sales_growth_ok
                          \/ _check_profit_growth_consistent(stock)
        has_durability_score == Positive(ScoreOf(stock, "Durability Score"))
        has_valuation_score == Positive(ScoreOf(stock, "Valuation Score"))
    IN  \/ has_any_quality
        \/ has_any_returns
        \/ has_any_growth
        \/ has_durability_score
        \/ has_valuation_score

\* the points of the first bound the value is above, 0 if above none;
\* steps is a sequence of <<bound in hundredths, points>>
RECURSIVE StepPoints(_, _)
StepPoints(value, steps) ==
    IF steps = <<>> THEN 0
    ELSE IF Above(value, Head(steps)[1]) THEN Head(steps)[2]
    ELSE StepPoints(value, Tail(steps))

\* _calculate_quality_score, in hundredths of a point; a score of d with one
\* decimal adds (d / 100) * 10 points, which is its number of tenths in
\* hundredths of a point
_calculate_quality_score(stock, x, durability_score, valuation_score) ==
    LET debt == IF x.debt_equity = 0 THEN 10
                ELSE IF Below(x.debt_equity, 30) THEN 8
                ELSE IF Below(x.debt_equity, 50) THEN 6
                ELSE IF Below(x.debt_equity, 100) THEN 4
                ELSE 0
        points == StepPoints(x.roe, <<<<2000, 15>>, <<1500, 12>>, <<1200, 10>>, <<800, 5>>>>)
                  + StepPoints(x.roce, <<<<2500, 15>>, <<2000, 12>>, <<1500, 10>>, <<1000, 5>>>>)
                  + debt
                  + StepPoints(x.interest_coverage, <<<<1000, 8>>, <<500, 6>>, <<300, 4>>>>)
                  + StepPoints(x.current_ratio, <<<<200, 7>>, <<150, 5>>, <<120, 3>>>>)
                  + StepPoints(_get_value(stock, "EPS TTM Growth %", 0),
                           <<<<2000, 10>>, <<1000, 7>>, <<0, 4>>>>)
                  + StepPoints(_get_value(stock, "Net Profit 3Y Growth %", 0),
                           <<<<2000, 10>>, <<1000, 7>>, <<0, 4>>>>)
        score == 100 * points
                 + (IF durability_score.some THEN durability_score.v ELSE 0)
                 + (IF valuation_score.some THEN valuation_score.v ELSE 0)
    IN  Min(score, 10000)

\* TrendlyneQualityService._get_stock_key: the key of a cached stock
QualityKey(stock) ==
    IF StrTruthy(stock.isin) THEN <<"ISIN:", Upper(stock.isin.s)>>
    ELSE IF StrTruthy(stock.nse_code) THEN <<"NSE:", Upper(stock.nse_code.s)>>
    ELSE IF StrTruthy(stock.bse_code) THEN <<"BSE:", Upper(stock.bse_code.s)>>
    ELSE <<"STOCK:", Upper(stock.stock)>>

\* the QualityFilteredStock made of the cached stock at a position: a copy
\* of the stock with its tier and its score
QualityStock(cache, at, tier) ==
    LET stock == cache[at].stock
    IN  [at |-> at, stock |-> stock, quality_tier |-> tier,
         quality_score |-> _calculate_quality_score(stock, Extract(stock),
                                                    ScoreOf(stock, "Durability Score"),
                                                    ScoreOf(stock, "Valuation Score"))]

\* the keys of a list of quality stocks
KeysOf(list) == {QualityKey(list[j].stock) : j \in DOMAIN list}

\* the stocks of the cache at the positions that pass, in the order of the
\* cache, sorted by quality_score descending
Passing(cache, passed, tier) ==
    LET found == Select(Len(cache), passed)
        score == [i \in DOMAIN cache |->
                     QualityStock(cache, i, tier).quality_score]
        sorted == SortDesc(found, score)
    IN  [j \in DOMAIN sorted |-> QualityStock(cache, sorted[j], tier)]

trendlyne_filter_great_quality_stocks(cache) ==
    Passing(cache, {i \in DOMAIN cache : TGreatGate(cache[i].stock)}, "great")

\* filter_medium_quality_stocks without the skip of the Great keys
MediumWithoutSkip(cache) ==
    Passing(cache, {i \in DOMAIN cache : TMediumGate(cache[i].stock)}, "medium")

trendlyne_filter_medium_quality_stocks(cache) ==
    LET great_stock_keys == KeysOf(trendlyne_filter_great_quality_stocks(cache))
    IN  Passing(cache,
                {i \in DOMAIN cache : /\ QualityKey(cache[i].stock) \notin great_stock_keys
                                      /\ TMediumGate(cache[i].stock)},
                "medium")

trendlyne_filter_good_quality_stocks(cache) ==
    LET great_stock_keys == KeysOf(trendlyne_filter_great_quality_stocks(cache))
        medium_stock_keys == KeysOf(trendlyne_filter_medium_quality_stocks(cache))
    IN  Passing(cache,
                {i \in DOMAIN cache : /\ QualityKey(cache[i].stock) \notin great_stock_keys
                                      /\ QualityKey(cache[i].stock) \notin medium_stock_keys
                                      /\ TGoodGate(cache[i].stock)},
                "good")

\* TrendlyneQualityService.get_all_quality_stocks; the tier "" stands for None
trendlyne_get_all_quality_stocks(cache, tier) ==
    CASE tier = "great" -> trendlyne_filter_great_quality_stocks(cache)
      [] tier = "medium" -> trendlyne_filter_medium_quality_stocks(cache)
      [] tier = "good" -> trendlyne_filter_good_quality_stocks(cache)
      [] OTHER -> trendlyne_filter_great_quality_stocks(cache)
                  \o trendlyne_filter_medium_quality_stocks(cache)
                  \o trendlyne_filter_good_quality_stocks(cache)

\* a cached stock whose row has the cells given; cells that _clean_value
\* turns into None are no part of its data
Cached(stock, nse_code, bse_code, isin, cells) ==
    [stock |-> stock, nse_code |-> nse_code, bse_code |-> bse_code, isin |-> isin,
     data |-> RowData([cells |-> cells]), source_files |-> <<1>>]

\* the cells of one stock, a cell for each column the gates read
GateCells(roe, roce, debt, interest, current, promoter, eps, profit, opm, eps_ttm) ==
    "ROE Ann  %" :> roe @@ "ROCE Ann  %" :> roce @@
    "Total Debt to Total Equity Ann" :> debt @@
    "Interest Coverage Ratio Ann" :> interest @@
    "Current Ratio Ann" :> current[1] @@ "Current Ratio TTM" :> current[2] @@
    "Promoter holding change QoQ %" :> promoter @@
    "Basic EPS QoQ Growth %" :> eps[1] @@ "EPS Qtr YoY Growth %" :> eps[2] @@
    "Net Profit 3Y Growth %" :> profit[1] @@ "Net Profit QoQ Growth %" :> profit[2] @@
    "OPM Ann  %" :> opm[1] @@ "OPM TTM %" :> opm[2] @@
    "EPS TTM Growth %" :> eps_ttm

\* the stocks the gates are compared on: each value on both sides of the
\* thresholds of the three gates, absent, or unreadable
GateStocks ==
    { Cached(<<"A">>, SomeStr(<<"A">>), NoStr, NoStr,
             GateCells(roe, roce, debt, interest, current, promoter, eps, profit, opm, eps_ttm)) :
        roe \in {Empty, Num(50), Num(120), Num(150)},
        roce \in {Empty, Num(150), Num(180)},
        debt \in {Empty, Num(10), Num(5)},
        interest \in {Text, Num(30), Num(50)},
        current \in {<<Empty, Empty>>, <<Num(0), Num(12)>>, <<Num(20), Empty>>},
        promoter \in {Num(-20), Empty},
        eps \in {Empty, Num(5)} \X {Empty, Num(5)},
        profit \in {Empty, Num(150)} \X {Empty, Num(5)},
        opm \in {<<Empty, Empty>>, <<Num(100), Num(200)>>, <<Num(200), Num(100)>>},
        eps_ttm \in {Empty, Num(5)} }

InitGate ==
    /\ files = <<>>
    /\ edits = 0
    /\ stocks = <<>>
    /\ tiers = NoTiers
    /\ t_service = FALSE
    /\ t_stocks = <<>>
    /\ t_loaded = {}
    /\ resp = NoResponse
    /\ probe \in GateStocks
    /\ result = NoResult

\* the three gates asked of the stock
AskGates ==
    /\ result.op = "none"
    /\ result' = [op |-> "gates", status |-> 0,
                  body |-> [great |-> TGreatGate(probe), medium |-> TMediumGate(probe),
                            good |-> TGoodGate(probe)]]
    /\ UNCHANGED <<files, edits, stocks, tiers, t_service, t_stocks, t_loaded, resp, probe>>

NextGate == AskGates

SpecGate == InitGate /\ [][NextGate]_vars

\* the cells of a stock that passes the Great gate
GreatCells ==
    GateCells(Num(150), Num(180), Num(5), Num(50), <<Num(20), Empty>>, Empty,
              <<Num(5), Empty>>, <<Num(150), Num(5)>>, <<Num(100), Num(200)>>, Num(5))

\* the cells of a stock that passes the Medium gate and not the Great gate
MediumCells ==
    GateCells(Num(120), Num(150), Num(10), Num(30), <<Num(0), Num(12)>>, Empty,
              <<Num(5), Num(5)>>, <<Empty, Empty>>, <<Empty, Empty>>, Empty)

\* the cells of a stock that passes the Good gate only
GoodCells ==
    GateCells(Num(50), Empty, Empty, Text, <<Empty, Empty>>, Num(-20),
              <<Empty, Empty>>, <<Empty, Empty>>, <<Empty, Empty>>, Empty)

\* the cells of a stock that passes no gate
NoCells ==
    GateCells(Empty, Empty, Empty, Text, <<Empty, Empty>>, Num(-20),
              <<Empty, Empty>>, <<Empty, Empty>>, <<Empty, Empty>>, Empty)

\* the entries a Trendlyne cache is made of, each under its own key.  The
\* ISIN of the fifth is "-", which is its key in the cache and None in the
\* stock, so the key the quality service gives it is that of the sixth
CachePool ==
    { [key |-> <<"ISIN:", INEA>>,
       stock |-> Cached(<<"A">>, SomeStr(<<"A">>), NoStr, SomeStr(INEA), GreatCells)],
      [key |-> <<"ISIN:", INEB>>,
       stock |-> Cached(<<"B">>, SomeStr(<<"B">>), NoStr, SomeStr(INEB), MediumCells)],
      [key |-> <<"ISIN:", INEN>>,
       stock |-> Cached(<<"N">>, NoStr, NoStr, SomeStr(INEN), GoodCells)],
      [key |-> <<"NSE:", <<"E">>>>,
       stock |-> Cached(<<"E">>, SomeStr(<<"E">>), NoStr, NoStr, NoCells)],
      [key |-> <<"ISIN:", <<"-">>>>,
       stock |-> Cached(<<"I">>, SomeStr(<<"I">>), NoStr, NoStr,
                        GreatCells @@ "Durability Score" :> Num(500))],
      [key |-> <<"NSE:", <<"I">>>>,
       stock |-> Cached(<<"i">>, SomeStr(<<"i">>), NoStr, NoStr, MediumCells)],
      [key |-> <<"BSE:", <<"1">>>>,
       stock |-> Cached(<<"b">>, NoStr, SomeStr(<<"1">>), NoStr,
                        NoCells @@ "Valuation Score" :> Num(1000))] }

\* the most stocks of a cache
MaxCache == 3

\* the caches: up to MaxCache entries of the pool, in any order
Caches ==
    UNION {{c \in [1..n -> CachePool] : \A i, j \in 1..n : i # j => c[i] # c[j]} :
              n \in 0..MaxCache}

\* the tiers get_all_quality_stocks is asked for, "" for None
AskedTiers == {"", "great", "medium", "good"}

\* a quality service over a Trendlyne service that has loaded its files
InitQuality ==
    /\ files = <<>>
    /\ edits = 0
    /\ stocks = <<>>
    /\ tiers = NoTiers
    /\ t_service = FALSE
    /\ t_stocks = <<>>
    /\ t_loaded = {}
    /\ resp = NoResponse
    /\ probe \in Caches
    /\ result = NoResult

\* a call of get_all_quality_stocks(tier)
GetAllQualityStocks(tier) ==
    /\ result.op = "none"
    /\ result' = [op |-> "quality", status |-> 0,
                  body |-> [tier |-> tier,
                            list |-> trendlyne_get_all_quality_stocks(probe, tier)]]
    /\ UNCHANGED <<files, edits, stocks, tiers, t_service, t_stocks, t_loaded, resp, probe>>

NextQuality == \E tier \in AskedTiers : GetAllQualityStocks(tier)

SpecQuality == InitQuality /\ [][NextQuality]_vars

-----------------------------------------------------------------------------


(* The claims.  A tier list is a sequence of positions in stocks, so an    *)
(* instrument is in a list when its position is.                           *)

\* the instruments of a tier list
Members(list) == {list[j] : j \in DOMAIN list}

\* C1: after GET /all has computed the Great, Aggressive and Good lists, no
\* instrument is in more than one of them, and an instrument that satisfies
\* the Great gate is neither in the Aggressive nor in the Good list
C1_TierExclusivity ==
    tiers.op = "all" =>
        /\ Members(tiers.great) \cap Members(tiers.aggressive) = {}
        /\ Members(tiers.great) \cap Members(tiers.good) = {}
        /\ Members(tiers.aggressive) \cap Members(tiers.good) = {}
        /\ \A i \in DOMAIN stocks :
              GreatGate(stocks[i]) =>
                  i \notin Members(tiers.aggressive) \cup Members(tiers.good)

\* the lines of the files in the data folder, as <<file number, line number>>
Lines == UNION {{<<n, i>> : i \in DOMAIN files[n].rows} : n \in DOMAIN files}

\* the dict csv.DictReader makes of a line
RowAt(l) == DictRow(files[l[1]].rows[l[2]], files[l[1]].scores)

\* line a is read before line b
Before(a, b) == a[1] < b[1] \/ (a[1] = b[1] /\ a[2] < b[2])

\* the lines load_stocks makes a stock of, and the stock of such a line
QLines == {l \in Lines : ~RowRaises(RowAt(l))}

QStock(l) == ParseRow(RowAt(l))

\* the stock has its durability score and its valuation score
BothScores(stock) == stock.durability_score.some /\ stock.valuation_score.some

\* the Optional metric fields of QualityStock: a stock has or lacks their value
OptionalMetrics ==
    {
        "pe_ttm", "industry_pe_ttm", "peg_ttm", "price_to_book", "ev_per_ebitda_ann",
        "piotroski_score", "altman_zscore", "tobin_q_ratio", "graham_number",
        "sector_pe_ttm", "sector_pbv_ttm", "industry_pbv_ttm", "price_to_sales_ann",
        "price_to_sales_ttm", "price_to_cashflow", "graham_ratio", "gross_npa_ratio",
        "capital_adequacy_ratio", "industry_score", "sector_score",
        "tl_checklist_positive_score", "tl_checklist_negative_score", "swot_strengths",
        "swot_weakness", "swot_opportunities", "swot_threats", "sector_roce",
        "industry_roce", "sector_roe", "industry_roe", "sector_peg_ttm",
        "industry_peg_ttm", "sector_net_profit_growth_qtr_qoq",
        "sector_net_profit_growth_ann_yoy", "industry_net_profit_growth_qtr_qoq",
        "industry_net_profit_growth_ann_yoy", "price_to_book_adjusted",
        "fc_est_1q_forward_ebit_qtr"
    }

\* self.stocks is what load_stocks makes of the files in the folder
QLoaded == edits = 0 /\ stocks # <<>>

\* C2: when load_stocks has read two rows with the same identity key of which
\* only the second has both the durability and the valuation score, the stock
\* kept for the key has every Optional metric value that the first row
\* supplied and the second row lacks
C2_DedupKeepsFields ==
    QLoaded =>
        \A a, b \in QLines :
            LET first == QStock(a)
                second == QStock(b)
            IN  ( /\ Before(a, b)
                  /\ StockKey(first) # <<>>
                  /\ StockKey(first) = StockKey(second)
                  /\ ~BothScores(first)
                  /\ BothScores(second) )
                => \A k \in DOMAIN stocks :
                      StockKey(stocks[k]) = StockKey(first) =>
                          \A f \in OptionalMetrics :
                              (first[f].some /\ ~second[f].some)
                              => stocks[k][f] = first[f]

\* the lines _process_csv_rows takes without raising, the key of such a line,
\* and whether the line has a stock name
TLines == {l \in Lines : ~ProcessRaises(RowAt(l))}

TKey(l) == _get_stock_key(RowAt(l))

Named(l) == StrTruthy(CleanStr(RowGetStr(RowAt(l), "Stock", <<>>)))

\* the data of a line or of a cached stock holds both scores
BothInData(data) == {"Durability Score", "Valuation Score"} \subseteq DOMAIN data

\* the Trendlyne service has been made and has run load_all_files on the folder
TLoaded == edits = 0 /\ t_service

\* the stocks load_stocks keeps under the key, and those the Trendlyne cache holds
QKept(key) == {k \in DOMAIN stocks : StockKey(stocks[k]) = key}

TKept(key) == {k \in DOMAIN t_stocks : t_stocks[k].key = key}

\* an earlier file has line a and a later file line b for the same key, a
\* without one of the two scores and b with both
QScoresArrive(a, b) ==
    /\ a[1] < b[1]
    /\ StockKey(QStock(a)) # <<>>
    /\ StockKey(QStock(a)) = StockKey(QStock(b))
    /\ ~BothScores(QStock(a))
    /\ BothScores(QStock(b))

TScoresArrive(a, b) ==
    /\ a[1] < b[1]
    /\ TKey(a) # <<>>
    /\ TKey(a) = TKey(b)
    /\ ~BothInData(RowData(RowAt(a)))
    /\ BothInData(RowData(RowAt(b)))

C4_ScoreBounded ==
    result.op = "score" => (0 <= result.body /\ result.body <= 10000)

\* the instruments of a Trendlyne cache: key, identity and data of each
Instruments(cache) ==
    {[key |-> cache[i].key,
      stock |-> cache[i].stock.stock,
      nse_code |-> cache[i].stock.nse_code,
      bse_code |-> cache[i].stock.bse_code,
      isin |-> cache[i].stock.isin,
      data |-> cache[i].stock.data] : i \in DOMAIN cache}

\* the cache a service new to the folder makes of the files now in it
FreshCache == load_all_files(<<>>, {}, TrendlyneFiles(files), TRUE).cache

\* C5: after POST /refresh the cache of TrendlyneStocksService holds exactly
\* the instruments of the files in the folder at that time, with the values
\* the files give them: nothing of a file that is gone is kept
C5_RefreshReplaces ==
    resp.op = "refresh" => Instruments(t_stocks) = Instruments(FreshCache)

\* the identity and metric fields of the stocks: the score and the tier label,
\* which the filters write, set aside
Metrics(ss) ==
    [i \in DOMAIN ss |-> [ss[i] EXCEPT !.quality_score = 0, !.quality_tier = ""]]

\* C6: loading an unchanged folder a second time changes nothing: load_stocks
\* on a service that holds the stocks of the folder leaves the same stocks
\* with the same identity and metric values, and refresh_data on a Trendlyne
\* service that has loaded the folder leaves the same instruments
C6_LoadIdempotent ==
    [][ /\ (QLoaded /\ files' = files /\ resp'.op = "load_stocks")
           => Metrics(stocks') = Metrics(stocks)
        /\ (TLoaded /\ files' = files /\ resp'.op = "refresh")
           => Instruments(t_stocks') = Instruments(t_stocks) ]_vars

\* refresh_data has reloaded the files of an unchanged folder into a cache
\* that held their instruments, and the quality service holds its stocks
C6_Witness ==
    /\ edits = 0
    /\ resp.op = "refresh"
    /\ resp.body.stocks_before > 0
    /\ resp.body.files_loaded > 0
    /\ stocks # <<>>

\* the metrics that more than one gate thresholds in the same direction
SharedMetrics ==
    {"roe", "roce", "debt_to_equity", "interest_coverage", "roa_ann",
     "promoter_pledge_percentage", "altman_zscore", "quality_score"}

\* C7: for every metric that more than one gate thresholds, a stock that meets
\* the Great threshold meets the Aggressive one, and a stock that meets the
\* Aggressive threshold meets the Good one where the Good gate has one
C7_GateTightness ==
    result.op = "gates" =>
        \A c \in SharedMetrics :
            /\ result.body.great[c] => result.body.aggressive[c]
            /\ c \in DOMAIN result.body.good =>
                  (result.body.aggressive[c] => result.body.good[c])

\* a stock that meets the Great threshold of every shared metric has been put
\* to the three gates
C7_Witness ==
    /\ result.op = "gates"
    /\ \A c \in SharedMetrics : result.body.great[c]
    /\ \E c \in SharedMetrics : c \in DOMAIN result.body.good /\ result.body.good[c]

\* C8: the Good list of GET /good and of GET /all holds exactly the stocks
\* that pass the Good gate and are in neither the Great nor the Aggressive
\* list: no stock that passes the Aggressive gate is in it, and no Good stock
\* is left out because another stock has its NSE code
C8_GoodMembership ==
    tiers.op \in {"good", "all"} =>
        Members(tiers.good) =
            {i \in DOMAIN stocks :
                /\ GoodGate(stocks[i])
                /\ ~GreatGate(stocks[i])
                /\ ~AggressiveGate(stocks[i])}

\* the list a tier handler has computed
TierList ==
    CASE tiers.op = "great" -> tiers.great
      [] tiers.op = "aggressive" -> tiers.aggressive
      [] OTHER -> tiers.good

\* C9: GET /great, /aggressive and /good answer with success and a body
\* {count, tier, stocks} that has one entry for each stock of the tier's
\* list, and _stock_to_response raises for no loaded stock
C9_TierResponse ==
    /\ tiers.op \in {"great", "aggressive", "good"} =>
          /\ resp.status = 200
          /\ resp.body.count = Len(TierList)
          /\ Len(resp.body.stocks) = Len(TierList)
    /\ \A i \in DOMAIN stocks : ~ResponseRaises(stocks[i])

\* no stock of the quality service has the NSE code, compared without case
QNoMatch(ss, code) == \A i \in DOMAIN ss : Upper(ss[i].nse_code) # Upper(code)

\* no cached Trendlyne stock has the code as its ISIN, NSE code or BSE code
TNoMatch(cache, code) ==
    \A i \in DOMAIN cache :
        \A field \in {"isin", "nse_code", "bse_code"} :
            ~(StrTruthy(cache[i].stock[field])
              /\ Upper(cache[i].stock[field].s) = Upper(code))

\* C10: a lookup by a code that no loaded instrument has, compared without
\* case, is answered with 404 and never with 500, by GET /stock/{nse_code} of
\* the quality service and by GET /{identifier} of the Trendlyne service with
\* its lookups by ISIN, NSE code and BSE code
C10_LookupNotFound ==
    [][ \A code \in Codes :
          /\ ( /\ resp'.op = "stock"
               /\ QNoMatch(stocks', code)
               /\ get_stock_by_nse_code_route(code) )
             => resp'.status = 404
          /\ ( /\ resp'.op = "identifier"
               /\ TNoMatch(t_stocks', code)
               /\ get_stock_by_identifier(code) )
             => resp'.status = 404 ]_vars

\* the Trendlyne service, its cache loaded, has answered a lookup with 404,
\* and the quality service holds stocks
C10_Witness ==
    /\ resp.op = "identifier"
    /\ resp.status = 404
    /\ t_stocks # <<>>
    /\ stocks # <<>>

\* the stock has an ISIN or an NSE code
HasIdentity(stock) == stock.isin # <<>> \/ stock.nse_code # <<>>

\* the stocks of the service that have an identity
Identified == {k \in DOMAIN stocks : HasIdentity(stocks[k])}

\* the bounds the dual-index filter is asked with
SomeBounds == {None, Some(50), Some(70)}

\* C11: a line whose ISIN and NSE code are both empty gives no stock in
\* load_stocks: every stock of the service has an identity, so has every
\* stock of a tier list, of a dual-index filter result and of a lookup by NSE
\* code, and every other line load_stocks parses is kept under its key
C11_NoIdentityDropped ==
    QLoaded =>
        /\ \A k \in DOMAIN stocks : HasIdentity(stocks[k])
        /\ \A l \in QLines :
              HasIdentity(QStock(l)) => QKept(StockKey(QStock(l))) # {}
        /\ Members(tiers.great) \cup Members(tiers.aggressive) \cup Members(tiers.good)
              \subseteq Identified
        /\ \A min_durability \in SomeBounds, min_valuation \in SomeBounds :
              Members(DurabilityValuationOf(stocks, min_durability, None,
                                            min_valuation, None).list)
                  \subseteq Identified
        /\ \A nse_code \in Codes \cup {<<>>} :
              FirstByNseCode(stocks, nse_code) \in Identified \cup {0}

\* the folder is loaded, GET /all has listed the tiers, and a file has a line
\* without identity followed by a line with one
C11_Witness ==
    /\ QLoaded
    /\ tiers.op = "all"
    /\ \E l \in QLines, m \in QLines :
          /\ ~HasIdentity(QStock(l))
          /\ l[1] = m[1]
          /\ Before(l, m)
          /\ HasIdentity(QStock(m))

\* C12: _safe_float, the service's and the routes', called with None, '', '-'
\* or a spelling of n/a, na, none or null in any case, raises nothing and
\* returns the default it was given: None where the default is None
C12_PlaceholderCoercion ==
    (result.op \in {"service_safe_float", "route_safe_float"}
        /\ probe.value \in Placeholders) =>
            /\ result.status = ""
            /\ result.body = probe.default

\* the service's _safe_float has returned None for "N/A" with the default None
C12_Witness ==
    /\ result.op = "service_safe_float"
    /\ probe.value = PyStr(<<"N", "/", "A">>)
    /\ probe.default = PyNone
    /\ result.body = PyNone

\* the files the cache of the Trendlyne service has instruments or fields from
Sources(cache) ==
    UNION {{cache[k].stock.source_files[j] : j \in DOMAIN cache[k].stock.source_files} :
             k \in DOMAIN cache}

\* C13: a load that fails leaves the collection as it was: the Trendlyne
\* service holds nothing read from a file whose load raised, so every file
\* its cache has an instrument or a field from is among its loaded files
C13_FailedLoadLeavesCollection ==
    t_service => Sources(t_stocks) \subseteq t_loaded

\* C14: a line that raises is the only line its file loses: every line of
\* the folder that parses and has an identity is among the stocks of the
\* quality service, and every line that is processed without raising and has
\* a key and a name is in the cache of the Trendlyne service
C14_RowErrorIsolation ==
    /\ QLoaded =>
          \A l \in QLines :
              HasIdentity(QStock(l)) => QKept(StockKey(QStock(l))) # {}
    /\ TLoaded =>
          \A l \in TLines :
              (TKey(l) # <<>> /\ Named(l)) => TKept(TKey(l)) # {}

\* lo <= x <= hi, a bound that is None not being applied
Within(x, lo, hi) == (lo.some => lo.v <= x) /\ (hi.some => x <= hi.v)

\* the stocks of the service with both scores, each within its bounds
InBounds(asked) ==
    {i \in DOMAIN stocks :
        /\ stocks[i].durability_score.some
        /\ stocks[i].valuation_score.some
        /\ Within(stocks[i].durability_score.v, asked[1], asked[2])
        /\ Within(stocks[i].valuation_score.v, asked[3], asked[4])}

\* a dual-index route has just run the filter
DualIndexAnswered ==
    result.op \in {"durability-valuation", "best", "excellent"} /\ resp.op = result.op

\* C15: filter_by_durability_valuation returns exactly the stocks that have
\* both scores with min <= score <= max for the bounds that are given, each
\* once, ordered by durability + valuation descending; a stock without one of
\* the scores is not returned
C15_DualIndexFilter ==
    DualIndexAnswered =>
        LET list == result.body.list
        IN  /\ Members(list) = InBounds(result.body.asked)
            /\ Len(list) = Cardinality(Members(list))
            /\ \A j \in 1..(Len(list) - 1) :
                  stocks[list[j]].durability_score.v + stocks[list[j]].valuation_score.v
                     >= stocks[list[j + 1]].durability_score.v
                          + stocks[list[j + 1]].valuation_score.v

\* the filter, asked with an upper bound, has returned three stocks or more,
\* and left out a stock without a score and a stock with both
C15_Witness ==
    /\ DualIndexAnswered
    /\ result.body.asked[2].some
    /\ Len(result.body.list) >= 3
    /\ \E i \in DOMAIN stocks : ~stocks[i].durability_score.some
    /\ \E i \in DOMAIN stocks :
          /\ stocks[i].durability_score.some
          /\ stocks[i].valuation_score.some
          /\ i \notin Members(result.body.list)

\* the stock load_stocks makes of the reference line: the Great profile as it is
ReferenceStock == Probe("great", NoOver)

\* the stock has the values of the reference scenario, and its other inputs
\* earn no fewer points than those of the reference line
IsReference(stock) ==
    /\ stock.roe = 250
    /\ stock.roce = 280
    /\ stock.debt_to_equity = 0
    /\ stock.interest_coverage = 150
    /\ stock.current_ratio = 25
    /\ stock.eps_ttm_growth = 220
    /\ stock.operating_rev_growth_ttm = 180
    /\ stock.profit_growth_consistency = "Consistent"
    /\ stock.margin_stability = "Stable"
    /\ stock.market_cap # 0
    /\ EarnedPoints(stock) >= EarnedPoints(ReferenceStock)

\* C16: a stock with return on equity 25, return on capital employed 28,
\* debt/equity 0, interest coverage 15, current ratio 2.5, EPS growth 22,
\* revenue growth 18, consistent profit growth, stable margins, a market cap
\* and its other inputs at their best gets a quality score of 90 or more and
\* passes every check of the Great filter
C16_ReferenceGreat ==
    (result.op = "gates" /\ IsReference(probe)) =>
        /\ probe.quality_score >= 9000
        /\ AllHold(result.body.great)

\* the reference line itself has been scored and put to the gates
C16_Witness ==
    /\ result.op = "gates"
    /\ IsReference(probe)
    /\ probe = Scored(ReferenceStock)

\* C17: a request to the Nifty routes during which the Firestore backend
\* fails (the service cannot be made, or a query or stream raises) is
\* answered with 503; 404 is answered only when the backend has answered and
\* streamed no document
C17_BackendFailureUnavailable ==
    /\ result.op \in {"construction", "query"} => resp.status = 503
    /\ (resp.op \in {"nifty-stocks", "nifty-stock"} /\ resp.status = 404) =>
          (result.op = "answered" /\ result.body = <<>>)

\* the sum of the counts of the ranges in the set
RECURSIVE SumCounts(_, _)
SumCounts(counts, ranges) ==
    IF ranges = {} THEN 0
    ELSE LET r == CHOOSE r \in ranges : TRUE
         IN  counts[r] + SumCounts(counts, ranges \ {r})

\* twice the median of the values, the midpoint of the two middle values for
\* an even number of them
TwiceMedian(values) ==
    LET sorted == Sorted(values)
        n == Len(values)
    IN  IF n % 2 = 1 THEN 2 * sorted[(n + 1) \div 2]
        ELSE sorted[n \div 2] + sorted[(n \div 2) + 1]

\* the summary is that of the values: min, max, mean and median
SummaryOf(summary, values) ==
    IF values = <<>> THEN ~summary.some
    ELSE /\ summary.some
         /\ \A j \in DOMAIN values : summary.min <= values[j] /\ values[j] <= summary.max
         /\ \E j \in DOMAIN values : summary.min = values[j]
         /\ \E j \in DOMAIN values : summary.max = values[j]
         /\ summary.avg = RoundDiv(100 * Sum(values), Len(values))
         /\ 2 * summary.median = TwiceMedian(values)

\* the ranges of the score are ten, and their counts sum to the number of
\* stocks that have the score
DecilesOf(counts, field, values) ==
    values # <<>> =>
        LET ranges == {r \in DOMAIN counts : r[1] = field}
        IN  /\ Cardinality(ranges) = 10
            /\ SumCounts(counts, ranges) = Len(values)

\* C18: get_durability_valuation_stats reports for the durability and for
\* the valuation score the min, the max, the mean and the median of the
\* scores present (the midpoint of the two middle scores when their number
\* is even), and counts in ten ranges that sum to the number of stocks with
\* the score
C18_IndexStatistics ==
    result.op = "stats" =>
        /\ SummaryOf(result.body.durability, ScoresPresent(stocks, "durability_score"))
        /\ SummaryOf(result.body.valuation, ScoresPresent(stocks, "valuation_score"))
        /\ DecilesOf(result.body.score_ranges, "durability_score",
                     ScoresPresent(stocks, "durability_score"))
        /\ DecilesOf(result.body.score_ranges, "valuation_score",
                     ScoresPresent(stocks, "valuation_score"))

\* the text with every run of spaces made one space
RECURSIVE Collapsed(_)
Collapsed(s) ==
    IF Len(s) < 2 THEN s
    ELSE IF s[1] = " " /\ s[2] = " " THEN Collapsed(Tail(s))
    ELSE <<Head(s)>> \o Collapsed(Tail(s))

\* C19: _get_value_from_data raises nothing and returns the value under the
\* first key of data among the exact name, the name without its trailing
\* whitespace and the name with its whitespace collapsed, in this order, and
\* the default when none of them is a key
C19_ColumnResolution ==
    result.op = "get_value" =>
        LET hit == FirstKey(<<probe.name, RStrip(probe.name), Collapsed(probe.name)>>,
                            probe.keys)
        IN  /\ result.status = ""
            /\ result.body = IF hit = <<>> THEN probe.default ELSE PyStr(hit[1])

\* C19, amended: _get_value_from_data raises nothing and returns the value
\* under the first key of data among the exact name, the name without its
\* trailing whitespace, the name with each pair of spaces made one space in
\* one pass from the left, and the name without its leading and trailing
\* whitespace, in this order, and the default when none of them is a key
C19_ColumnResolutionAsTried ==
    result.op = "get_value" =>
        LET hit == FirstKey(<<probe.name, RStrip(probe.name), ReplaceDouble(probe.name),
                              Strip(probe.name)>>, probe.keys)
        IN  /\ result.status = ""
            /\ result.body = IF hit = <<>> THEN probe.default ELSE PyStr(hit[1])

\* the exact name and the name without its trailing whitespace are no keys,
\* and the value under the name with its pairs of spaces made one is returned
C19_Witness ==
    /\ result.op = "get_value"
    /\ probe.name \notin probe.keys
    /\ RStrip(probe.name) \notin probe.keys
    /\ ReplaceDouble(probe.name) \in probe.keys
    /\ Strip(probe.name) \in probe.keys \ {ReplaceDouble(probe.name)}
    /\ result.body = PyStr(ReplaceDouble(probe.name))

\* C20: after GET /all has run the great, the aggressive and the good filter
\* in this order, every instrument that satisfies the Great gate carries
\* quality_tier "Great", and every instrument of the great, the aggressive and
\* the good list carries the label of its list
C20_TierLabelFollowsPriority ==
    tiers.op = "all" =>
        /\ \A i \in DOMAIN stocks :
              GreatGate(stocks[i]) => stocks[i].quality_tier = "Great"
        /\ \A i \in Members(tiers.great) : stocks[i].quality_tier = "Great"
        /\ \A i \in Members(tiers.aggressive) : stocks[i].quality_tier = "Aggressive"
        /\ \A i \in Members(tiers.good) : stocks[i].quality_tier = "Good"

\* C21: in every state the load, the statistics and the dual-index filters
\* of QualityStocksService reach, each instrument's quality_tier is the
\* default "" or one of "Great", "Aggressive" and "Good"
C21_TierLabelInEnumeration ==
    \A i \in DOMAIN stocks : stocks[i].quality_tier \in {"", "Great", "Aggressive", "Good"}

\* the pair of a later and an earlier EPS passes
PairPasses(later, earlier) == later > 0 /\ (later > earlier \/ earlier <= 0)

\* C22: the consecutive positive quarters of a loaded stock are 0, 1 or 2: 0
\* when the pair (current EPS, EPS 1 quarter ago) fails, whatever the second
\* pair does, 1 when it passes and the pair (EPS 1 quarter ago, EPS 2
\* quarters ago) fails, and 2 when both pairs pass
C22_ConsecutivePositiveQuarters ==
    result.op = "parse" =>
        LET s == result.body
            first == PairPasses(s.basic_eps_qtr, s.basic_eps_1q_ago)
            second == PairPasses(s.basic_eps_1q_ago, s.basic_eps_2q_ago)
        IN  /\ s.consecutive_positive_quarters \in {0, 1, 2}
            /\ ~first => s.consecutive_positive_quarters = 0
            /\ first /\ ~second => s.consecutive_positive_quarters = 1
            /\ s.consecutive_positive_quarters = 2 <=> first /\ second

\* the first pair fails, the second passes, and the count is 0
C22_Witness ==
    /\ result.op = "parse"
    /\ ~PairPasses(result.body.basic_eps_qtr, result.body.basic_eps_1q_ago)
    /\ PairPasses(result.body.basic_eps_1q_ago, result.body.basic_eps_2q_ago)
    /\ result.body.consecutive_positive_quarters = 0

\* the positive profits among the three most recent quarters of a stock
PositiveQuarters(s) ==
    Cardinality({q \in 1..3 : <<s.net_profit_qtr, s.net_profit_1q_ago, s.net_profit_2q_ago>>[q] > 0})

\* C23: the profit growth consistency of a loaded stock is "Negative" exactly
\* when this year's or the year-ago annual net profit is <= 0; otherwise, with
\* g the growth in percent over the year-ago profit and q the positive
\* profits among the last three quarters, it is "Very Consistent" when g > 15
\* and q >= 2, else "Consistent" when g > 10 and q >= 2, else "Moderate" when
\* g > 0, else "Inconsistent"
C23_ProfitGrowthConsistency ==
    result.op = "parse" =>
        LET s == result.body
            now == s.net_profit_ann
            ago == s.net_profit_ann_1y_ago
            q == PositiveQuarters(s)
            label == s.profit_growth_consistency
        IN  /\ label \in {"Negative", "Very Consistent", "Consistent", "Moderate", "Inconsistent"}
            /\ label = "Negative" <=> (now <= 0 \/ ago <= 0)
            /\ (now > 0 /\ ago > 0) =>
                  \* g > pct for g = 100 * (now - ago) / ago
                  label = IF 100 * (now - ago) > 15 * ago /\ q >= 2 THEN "Very Consistent"
                          ELSE IF 100 * (now - ago) > 10 * ago /\ q >= 2 THEN "Consistent"
                          ELSE IF now > ago THEN "Moderate"
                          ELSE "Inconsistent"

\* a growth of exactly 10 percent with three positive quarters is "Moderate"
C23_Witness ==
    /\ result.op = "parse"
    /\ result.body.net_profit_ann_1y_ago > 0
    /\ 10 * result.body.net_profit_ann = 11 * result.body.net_profit_ann_1y_ago
    /\ PositiveQuarters(result.body) = 3
    /\ result.body.profit_growth_consistency = "Moderate"

\* C24: the margin stability of a loaded stock is "Negative" exactly when the
\* annual operating margin is <= 0; otherwise, when the annual margin rose
\* over the year, it is "Expanding" if the quarterly margin rose over the
\* previous quarter and "Expanding (Volatile)" if not; otherwise it follows
\* the change |margin - margin_1y_ago| / margin_1y_ago: "Stable" below 5
\* percent, "Moderately Stable" below 15 percent, "Volatile" from there on,
\* for every year-ago margin
C24_MarginStability ==
    result.op = "parse" =>
        LET s == result.body
            now == s.opm_ann
            ago == s.opm_ann_1y_ago
            change == IF now > ago THEN now - ago ELSE ago - now
            label == s.margin_stability
        IN  /\ label = "Negative" <=> now <= 0
            /\ (now > 0 /\ now > ago) =>
                  label = IF s.opm_qtr > s.opm_1q_ago THEN "Expanding"
                          ELSE "Expanding (Volatile)"
            /\ (now > 0 /\ now <= ago) =>
                  label = IF 100 * change < 5 * ago THEN "Stable"
                          ELSE IF 100 * change < 15 * ago THEN "Moderately Stable"
                          ELSE "Volatile"

\* the lines load_stocks files under a key
KeyedLines == {l \in QLines : StockKey(QStock(l)) # <<>>}

\* the first of the lines with the key
FirstLine(key) ==
    CHOOSE l \in KeyedLines :
        /\ StockKey(QStock(l)) = key
        /\ \A m \in KeyedLines : StockKey(QStock(m)) = key => (m = l \/ Before(l, m))

\* C25: the list load_stocks returns has exactly one instrument for each
\* non-empty identity key of the lines it parsed and none for another key,
\* and the instruments are in the order of the first lines of their keys,
\* also when a later line replaced the record of a key
C25_OnePerKeyInFirstOrder ==
    QLoaded =>
        /\ \A l \in KeyedLines : Cardinality(QKept(StockKey(QStock(l)))) = 1
        /\ \A k \in DOMAIN stocks :
              \E l \in KeyedLines : StockKey(QStock(l)) = StockKey(stocks[k])
        /\ \A i, j \in DOMAIN stocks :
              i < j => Before(FirstLine(StockKey(stocks[i])), FirstLine(StockKey(stocks[j])))

\* a later line replaced the record of a key whose first line precedes the
\* first line of another key, which was read before the replacing line
C25_Witness ==
    /\ QLoaded
    /\ \E a, b, c \in KeyedLines :
          /\ Before(a, b) /\ Before(b, c)
          /\ StockKey(QStock(a)) = StockKey(QStock(c))
          /\ StockKey(QStock(b)) # StockKey(QStock(a))
          /\ a = FirstLine(StockKey(QStock(a)))
          /\ b = FirstLine(StockKey(QStock(b)))
          /\ PrefersNew(QStock(a), QStock(c))
          /\ \E k \in DOMAIN stocks :
                /\ StockKey(stocks[k]) = StockKey(QStock(c))
                /\ BothScores(stocks[k])

\* the lines _process_csv_rows reaches: no earlier line of the file raises
Processed == {l \in TLines : \A m \in Lines : (m[1] = l[1] /\ m[2] < l[2]) => m \in TLines}

\* the line that made the cached instrument of the key: the first line with
\* the key and a name that is processed
CreatingLine(key) ==
    CHOOSE l \in Processed :
        /\ TKey(l) = key /\ Named(l)
        /\ \A m \in Processed : (TKey(m) = key /\ Named(m)) => (m = l \/ Before(l, m))

\* an identity field as TrendlyneStock(...) is given it
AsCreated(l, col) ==
    LET value == CleanStr(RowGetStr(RowAt(l), col, <<>>))
    IN  IF StrTruthy(value) THEN value ELSE NoStr

\* C26: after the files of the folder were loaded and lines with the same
\* key were merged, the name, the NSE code, the BSE code and the ISIN of
\* every cached instrument are those of the line that created it
C26_IdentityImmutable ==
    TLoaded =>
        \A k \in DOMAIN t_stocks :
            LET l == CreatingLine(t_stocks[k].key)
                stock == t_stocks[k].stock
            IN  /\ stock.stock = AsCreated(l, "Stock").s
                /\ stock.nse_code = AsCreated(l, "NSE Code")
                /\ stock.bse_code = AsCreated(l, "BSE Code")
                /\ stock.isin = AsCreated(l, "ISIN")

\* C27: calculate_stock_score returns a value from 0 to 100 (0 to 10000
\* hundredths) for every stock and for all criteria whose weights are within
\* 0 and 1
C27_AdHocScoreBounded ==
    result.op = "score" => (0 <= result.body /\ result.body <= 10000)

\* the stock has the metric of the filter and the metric is beyond the threshold
Beyond(stock, criteria, filter) ==
    LET x == stock[filter[1]]
        c == criteria.thresholds[filter[3]].v
    IN  CASE filter[4] \in {"min", "min_not_none"} -> x.some /\ x.v < c
          [] filter[4] \in {"max", "max_required"} -> x.some /\ x.v > c
          [] filter[4] = "quotient_max" ->
               /\ x.some /\ stock[filter[2]].some /\ stock[filter[2]].v # 0
               /\ QuotientAbove(x.v, stock[filter[2]].v, c)
          [] OTHER ->
               /\ x.some /\ stock[filter[2]].some /\ stock[filter[2]].v # 0
               /\ QuotientBelow(x.v, stock[filter[2]].v, c)

\* C28: find_great_stocks returns at most criteria.limit stocks in the order
\* of the sort key (the score, descending, by default and for an unknown
\* key); every stock it returns has a score of at least min_score when
\* min_score is given, and for every threshold given, also one of 0, every
\* returned stock that has the metric is on the allowed side of it
C28_AdHocFilterResult ==
    result.op = "find" =>
        LET list == result.body
            criteria == probe.criteria
            key == SortKey(probe.stocks, criteria)
        IN  /\ Len(list) <= criteria.limit
            /\ \A j, k \in DOMAIN list : j < k => key[list[j]] >= key[list[k]]
            /\ criteria.min_score.some =>
                  \A j \in DOMAIN list :
                      calculate_stock_score(probe.stocks[list[j]], criteria)
                          >= criteria.min_score.v
            /\ \A i \in DOMAIN StockFilters :
                  criteria.thresholds[StockFilters[i][3]].some =>
                      \A j \in DOMAIN list :
                          ~Beyond(probe.stocks[list[j]], criteria, StockFilters[i])

\* C29: the gates of TrendlyneQualityService are nested: a stock that
\* satisfies the Great gate of filter_great_quality_stocks satisfies the
\* Medium gate of filter_medium_quality_stocks, and a stock that satisfies
\* the Medium gate satisfies the Good gate of filter_good_quality_stocks,
\* each gate taken without the exclusion of the higher tiers
C29_GateNesting ==
    result.op = "gates" =>
        /\ result.body.great => result.body.medium
        /\ result.body.medium => result.body.good

\* a stock that satisfies the Great gate, and with it the other two
C29_Witness ==
    /\ result.op = "gates"
    /\ result.body.great
    /\ result.body.medium
    /\ result.body.good

\* the positions in the cache of the entries of a list of quality stocks
Cachings(list) == [j \in DOMAIN list |-> list[j].at]

\* the tier of the list the j-th entry of great + medium + good came from
TierOfList(cache, j) ==
    LET great == Len(trendlyne_filter_great_quality_stocks(cache))
        medium == Len(trendlyne_filter_medium_quality_stocks(cache))
    IN  IF j <= great THEN "great" ELSE IF j <= great + medium THEN "medium" ELSE "good"

\* C30: the list great + medium + good that get_all_quality_stocks() returns
\* holds each cached stock at most once, the quality_tier of each entry is
\* the tier of the list it came from, and a stock that satisfies the Great
\* gate is never returned with tier medium or good
C30_TierExclusivity ==
    (result.op = "quality" /\ result.body.tier = "") =>
        LET list == result.body.list
        IN  /\ \A j, k \in DOMAIN list : j # k => list[j].at # list[k].at
            /\ \A j \in DOMAIN list :
                  /\ list[j].stock = probe[list[j].at].stock
                  /\ list[j].quality_tier = TierOfList(probe, j)
                  /\ TGreatGate(list[j].stock) => list[j].quality_tier = "great"

\* a cache whose stocks are returned in more than one tier, one of them a
\* stock that passes the Medium gate and not the Great gate and is skipped
\* because a Great stock has its key
C30_Witness ==
    /\ result.op = "quality"
    /\ result.body.tier = ""
    /\ {result.body.list[j].quality_tier : j \in DOMAIN result.body.list}
          \in {{"great", "medium"}, {"great", "good"}, {"great", "medium", "good"}}
    /\ \E i \in DOMAIN probe :
          /\ TMediumGate(probe[i].stock)
          /\ ~TGreatGate(probe[i].stock)
          /\ \A j \in DOMAIN result.body.list : result.body.list[j].at # i

====
